---------------------------- MODULE Spec2Model ----------------------------
(***************************************************************************)
(* Model of the bulk CSV dedupe / lead pipeline of crednorth:              *)
(*   loans/services/creditsea_dedupe.py   check_creditsea_dedupe           *)
(*   loans/services/creditsea_lead.py     create_creditsea_lead            *)
(*   loans/services/lender_call.py        process_lender                   *)
(*   loans/services/bulk_processor.py     process_csv                      *)
(*                                                                         *)
(* Text values (CSV cells, column names, lender names) are sequences of    *)
(* one-character strings so that strip() and lower() are computed.        *)
(* Python's None is the value NoneV.  A Python dict is a function whose    *)
(* DOMAIN is its key set.                                                  *)
(***************************************************************************)
EXTENDS Integers, Sequences, FiniteSets, TLC

VARIABLES
    inv,            \* harness: the last call of a client or of process_lender
    pc,             \* process_csv: position of the run
    header,         \* process_csv: first line of the input file (reader.fieldnames)
    lines,          \* process_csv: the remaining lines of the input file
    lenders,        \* process_csv: the requested lender names
    check_dedupe,   \* process_csv: flag
    send_leads,     \* process_csv: flag
    rows,           \* process_csv: what _read_and_validate_csv returned
    row_idx,        \* _process_rows: index of the current row (0-based count of finished rows)
    lender_idx,     \* _process_rows: number of lenders finished for the current row
    results,        \* _process_rows: the result rows appended so far
    calls,          \* history: every client call made by the run
    output,         \* the output CSV: whether it was written, and its rows
    exc,            \* the exception process_csv ended with, or "none"
    users,          \* the table users_user: its rows, in order of insertion
    leads,          \* the table loans_lead: its rows, in order of insertion
    usermeta,       \* the table users_usermeta: its rows, in order of insertion
    lender_table,   \* the table lenders_lender: its rows and the last id it gave
    cache,          \* django.core.cache: the entries of the bulk upload sessions
    req             \* BulkDedupeAPIView.post: the request in progress, its files and descriptors

vars == <<inv, pc, header, lines, lenders, check_dedupe, send_leads, rows,
          row_idx, lender_idx, results, calls, output, exc, users, leads, usermeta,
          lender_table, cache, req>>

\* the tables and the cache that the upserts and the lead views leave alone
sideVars == <<usermeta, lender_table, cache>>

storeVars == <<users, leads, sideVars>>

pipelineVars == <<pc, header, lines, lenders, check_dedupe, send_leads, rows,
                  row_idx, lender_idx, results, calls, output, exc>>

(***************************************************************************)
(* Python values                                                           *)
(***************************************************************************)
NoneV == <<"None">>

\* str.strip() removes leading and trailing whitespace
Whitespace == {" ", "\t"}

RECURSIVE LStrip(_)
LStrip(s) == IF s # <<>> /\ Head(s) \in Whitespace THEN LStrip(Tail(s)) ELSE s

RECURSIVE RStrip(_)
RStrip(s) ==
    IF s # <<>> /\ s[Len(s)] \in Whitespace THEN RStrip(SubSeq(s, 1, Len(s) - 1)) ELSE s

Strip(s) == RStrip(LStrip(s))

\* str.lower() on the ASCII letters
UpperLetters == <<"A","B","C","D","E","F","G","H","I","J","K","L","M",
                  "N","O","P","Q","R","S","T","U","V","W","X","Y","Z">>
LowerLetters == <<"a","b","c","d","e","f","g","h","i","j","k","l","m",
                  "n","o","p","q","r","s","t","u","v","w","x","y","z">>

LowerChar(c) ==
    IF \E i \in 1..Len(UpperLetters) : UpperLetters[i] = c
    THEN LowerLetters[CHOOSE i \in 1..Len(UpperLetters) : UpperLetters[i] = c]
    ELSE c

Lower(s) == [i \in 1..Len(s) |-> LowerChar(s[i])]

\* dict.get(key) and dict.get(key, default)
Get(d, k) == IF k \in DOMAIN d THEN d[k] ELSE NoneV
GetDefault(d, k, default) == IF k \in DOMAIN d THEN d[k] ELSE default

\* truth value of a str-or-None
Truthy(v) == v # NoneV /\ v # <<>>

\* a or b or c
Or3(a, b, c) == IF Truthy(a) THEN a ELSE IF Truthy(b) THEN b ELSE c

(***************************************************************************)
(* Column and lender names                                                 *)
(***************************************************************************)
k_phoneNumber    == <<"p","h","o","n","e","N","u","m","b","e","r">>
k_phonenumber    == <<"p","h","o","n","e","n","u","m","b","e","r">>
k_mobile         == <<"m","o","b","i","l","e">>
k_pan            == <<"p","a","n">>
k_first_name     == <<"f","i","r","s","t","_","n","a","m","e">>
k_last_name      == <<"l","a","s","t","_","n","a","m","e">>
k_dob            == <<"d","o","b">>
k_gender         == <<"g","e","n","d","e","r">>
k_pinCode        == <<"p","i","n","C","o","d","e">>
k_income         == <<"i","n","c","o","m","e">>
k_employmentType == <<"e","m","p","l","o","y","m","e","n","t","T","y","p","e">>

n_creditsea == <<"c","r","e","d","i","t","s","e","a">>

(***************************************************************************)
(* What the external service does with one POST.                           *)
(*   kind "timeout" / "connection": requests.post raises                   *)
(*   kind "http": a response with a status code and a body                 *)
(* A body is not JSON, a JSON list, or a JSON object whose members are     *)
(* JSON literals written as text ("true", "false", "null", ...) or Absent. *)
(***************************************************************************)
Absent == "<absent>"
NoBody == [shape |-> "none"]
NoResp == [kind |-> "not_called", code |-> 0, body |-> NoBody]

Timeout(r)    == r.kind = "timeout"
ConnFailed(r) == r.kind = "connection"

\* requests.Response.raise_for_status: HTTPError for 4xx and 5xx
RaisesForStatus(code) == 400 <= code /\ code < 600

\* every exception the clients can meet derives from Exception
ExceptionNames == {"Timeout", "ConnectionError", "HTTPError", "JSONDecodeError",
                   "AttributeError"}

\* the exception, if any, raised by
\*     response = requests.post(...); response.raise_for_status();
\*     data = response.json(); data.get(...)
CallException(resp) ==
    IF Timeout(resp) THEN "Timeout"
    ELSE IF ConnFailed(resp) THEN "ConnectionError"
    ELSE IF RaisesForStatus(resp.code) THEN "HTTPError"
    ELSE IF resp.body.shape = "notjson" THEN "JSONDecodeError"
    ELSE IF resp.body.shape # "object" THEN "AttributeError"
    ELSE "none"

(***************************************************************************)
(* creditsea_dedupe.py                                                     *)
(***************************************************************************)
\* a client's outcome: the dict it returns (ret), or the exception that
\* leaves it (raised), and whether requests.post was called (net)
Returned(d, n) == [ret |-> d, raised |-> "none", net |-> n]
Raised(e, n)   == [ret |-> [exception |-> e], raised |-> e, net |-> n]

DEDUPE_DUPLICATE     == [status |-> "SUCCESS", result |-> "DUPLICATE"]
DEDUPE_NOT_DUPLICATE == [status |-> "SUCCESS", result |-> "NOT_DUPLICATE"]
DEDUPE_API_ERROR     == [status |-> "FAILED", result |-> "API_ERROR"]

\* faulty variant of DedupeHandler: "except requests.exceptions.RequestException:"
DedupeHandlerNarrow(e) == e \in {"Timeout", "ConnectionError", "HTTPError"}

\* "except Exception:" of check_creditsea_dedupe: the exceptions it catches
DedupeHandler(e) == e \in ExceptionNames

check_creditsea_dedupe(phoneNumber, panNumber, resp) ==
    LET e == CallException(resp) IN
    IF e # "none"
    THEN IF DedupeHandler(e) THEN Returned(DEDUPE_API_ERROR, TRUE) ELSE Raised(e, TRUE)
    ELSE LET success == resp.body.success
             dedupe  == resp.body.dedupe
         IN  IF success = "true" /\ dedupe = "true"
             THEN Returned(DEDUPE_DUPLICATE, TRUE)
             ELSE IF success = "true" /\ dedupe = "false"
             THEN Returned(DEDUPE_NOT_DUPLICATE, TRUE)
             ELSE Returned(DEDUPE_API_ERROR, TRUE)

(***************************************************************************)
(* creditsea_lead.py                                                       *)
(***************************************************************************)
required_fields == <<k_first_name, k_last_name, k_phoneNumber, k_pan, k_dob,
                     k_gender, k_pinCode, k_income, k_employmentType>>

SUCCESS_MARKER == "Lead generated successfully"

\* faulty variant of FieldMissing: value is None or str(value) == ''
FieldMissingNoStrip(row_data, field) ==
    LET value == Get(row_data, field) IN value = NoneV \/ value = <<>>

\* the test of the validation loop: value is None or str(value).strip() == ''
FieldMissing(row_data, field) ==
    LET value == Get(row_data, field) IN value = NoneV \/ Strip(value) = <<>>

\* the loop "for field in required_fields": index of the field it returns on, 0 if none
FirstMissing(row_data) ==
    LET bad == {i \in 1..Len(required_fields) : FieldMissing(row_data, required_fields[i])}
    IN  IF bad = {} THEN 0 ELSE CHOOSE i \in bad : \A j \in bad : i <= j

\* str(x) of a JSON member read with data.get(name, "")
StrOr(atom) == IF atom = Absent THEN <<>> ELSE IF atom = "null" THEN <<"None">> ELSE <<atom>>

\* data.get("message", default)
MessageOr(body, default) ==
    IF body.message = Absent THEN default
    ELSE IF body.message = "null" THEN NoneV
    ELSE <<body.message>>

STR_E == <<"str(e)">>

\* the handler "except requests.exceptions.HTTPError as e"
HttpErrorMessage(resp) ==
    IF resp.body.shape = "object" THEN MessageOr(resp.body, STR_E) ELSE STR_E

\* "except Exception as e:" of create_creditsea_lead: the exceptions it catches
LeadHandler(e) == e \in ExceptionNames

\* faulty variant of create_creditsea_lead: one handler, "except Exception as e",
\* that answers API_REJECTED whatever was raised
CreateLeadOneHandler(row_data, resp) ==
    LET m == FirstMissing(row_data) IN
    IF m # 0
    THEN Returned([status |-> "FAILED", result |-> "VALIDATION_ERROR",
                   message |-> <<"Missing field: ">> \o required_fields[m]], FALSE)
    ELSE LET e == CallException(resp) IN
         IF e # "none"
         THEN Returned([status |-> "FAILED", result |-> "API_REJECTED",
                        message |-> STR_E], TRUE)
         ELSE IF resp.body.message = SUCCESS_MARKER
         THEN Returned([status |-> "SUCCESS", result |-> "LEAD_CREATED",
                        lead_id |-> StrOr(resp.body.leadId),
                        utm_link |-> StrOr(resp.body.utmLink)], TRUE)
         ELSE Returned([status |-> "FAILED", result |-> "API_REJECTED",
                        message |-> MessageOr(resp.body, <<"Unknown error">>)], TRUE)

create_creditsea_lead(row_data, resp) ==
    LET m == FirstMissing(row_data) IN
    IF m # 0
    THEN Returned([status |-> "FAILED", result |-> "VALIDATION_ERROR",
                   message |-> <<"Missing field: ">> \o required_fields[m]], FALSE)
    ELSE LET e == CallException(resp) IN
         IF e = "HTTPError"
         THEN Returned([status |-> "FAILED", result |-> "API_REJECTED",
                        message |-> HttpErrorMessage(resp)], TRUE)
         ELSE IF e # "none"
         THEN IF LeadHandler(e)
              THEN Returned([status |-> "FAILED", result |-> "API_ERROR",
                             message |-> STR_E], TRUE)
              ELSE Raised(e, TRUE)
         ELSE IF resp.body.message = SUCCESS_MARKER
         THEN Returned([status |-> "SUCCESS", result |-> "LEAD_CREATED",
                        lead_id |-> StrOr(resp.body.leadId),
                        utm_link |-> StrOr(resp.body.utmLink)], TRUE)
         ELSE Returned([status |-> "FAILED", result |-> "API_REJECTED",
                        message |-> MessageOr(resp.body, <<"Unknown error">>)], TRUE)

(***************************************************************************)
(* lender_call.py                                                          *)
(* The dispatcher is given what the service would answer to a dedupe POST  *)
(* (dresp) and to a lead POST (lresp); an answer is used only if the       *)
(* client makes the POST.  Its outcome carries the client calls it made,   *)
(* in order.                                                               *)
(***************************************************************************)
NO_ACTION_SELECTED == [status |-> "FAILED", result |-> "NO_ACTION_SELECTED"]
UNSUPPORTED_LENDER == [status |-> "FAILED", result |-> "UNSUPPORTED_LENDER"]

\* one call of a client: its arguments, the answer it got, its outcome
ClientCall(client, args, resp, out) ==
    [client |-> client, args |-> args,
     resp |-> IF out.net THEN resp ELSE NoResp, out |-> out]

Dispatched(out, cs) == [ret |-> out.ret, raised |-> out.raised, calls |-> cs]

DedupeCall(row_data, dresp) ==
    LET phone == Or3(Get(row_data, k_phoneNumber), Get(row_data, k_phonenumber),
                     Get(row_data, k_mobile))
        pan   == Get(row_data, k_pan)
    IN  ClientCall("dedupe", <<phone, pan>>, dresp,
                   check_creditsea_dedupe(phone, pan, dresp))

LeadCall(row_data, lresp) ==
    ClientCall("lead", <<row_data>>, lresp, create_creditsea_lead(row_data, lresp))

\* faulty variants of _process_creditsea: one goes on to the lead client after
\* DUPLICATE, the other takes the single-flag branches the wrong way round
ProcessCreditseaNoShortCircuit(row_data, cd, sl, dresp, lresp) ==
    LET d == DedupeCall(row_data, dresp)
        l == LeadCall(row_data, lresp)
    IN  IF cd /\ ~sl THEN Dispatched(d.out, <<d>>)
        ELSE IF ~cd /\ sl THEN Dispatched(l.out, <<l>>)
        ELSE IF cd /\ sl
        THEN IF d.out.raised # "none" THEN Dispatched(d.out, <<d>>)
             ELSE IF Get(d.out.ret, "status") # "SUCCESS" THEN Dispatched(d.out, <<d>>)
             ELSE Dispatched(l.out, <<d, l>>)
        ELSE Dispatched(Returned(NO_ACTION_SELECTED, FALSE), <<>>)

ProcessCreditseaSwapped(row_data, cd, sl, dresp, lresp) ==
    LET d == DedupeCall(row_data, dresp)
        l == LeadCall(row_data, lresp)
    IN  IF cd /\ ~sl THEN Dispatched(l.out, <<l>>)
        ELSE IF ~cd /\ sl THEN Dispatched(d.out, <<d>>)
        ELSE IF cd /\ sl
        THEN IF d.out.raised # "none" THEN Dispatched(d.out, <<d>>)
             ELSE IF Get(d.out.ret, "status") # "SUCCESS" THEN Dispatched(d.out, <<d>>)
             ELSE IF Get(d.out.ret, "result") = "DUPLICATE"
             THEN Dispatched(Returned(DEDUPE_DUPLICATE, FALSE), <<d>>)
             ELSE Dispatched(l.out, <<d, l>>)
        ELSE Dispatched(Returned(NO_ACTION_SELECTED, FALSE), <<>>)

\* a faulty variant that reports the duplicate it found as a failure
ProcessCreditseaDuplicateFailed(row_data, cd, sl, dresp, lresp) ==
    LET d == DedupeCall(row_data, dresp)
        l == LeadCall(row_data, lresp)
    IN  IF cd /\ ~sl THEN Dispatched(d.out, <<d>>)
        ELSE IF ~cd /\ sl THEN Dispatched(l.out, <<l>>)
        ELSE IF cd /\ sl
        THEN IF d.out.raised # "none" THEN Dispatched(d.out, <<d>>)
             ELSE IF Get(d.out.ret, "status") # "SUCCESS" THEN Dispatched(d.out, <<d>>)
             ELSE IF Get(d.out.ret, "result") = "DUPLICATE"
             THEN Dispatched(Returned([status |-> "FAILED", result |-> "DUPLICATE"], FALSE),
                             <<d>>)
             ELSE Dispatched(l.out, <<d, l>>)
        ELSE Dispatched(Returned(NO_ACTION_SELECTED, FALSE), <<>>)

\* a third faulty variant: with both flags set the lead client is called after a
\* dedupe check that failed
ProcessCreditseaGoesOn(row_data, cd, sl, dresp, lresp) ==
    LET d == DedupeCall(row_data, dresp)
        l == LeadCall(row_data, lresp)
    IN  IF cd /\ ~sl THEN Dispatched(d.out, <<d>>)
        ELSE IF ~cd /\ sl THEN Dispatched(l.out, <<l>>)
        ELSE IF cd /\ sl
        THEN IF d.out.raised # "none" THEN Dispatched(d.out, <<d>>)
             ELSE IF Get(d.out.ret, "result") = "DUPLICATE"
             THEN Dispatched(Returned(DEDUPE_DUPLICATE, FALSE), <<d>>)
             ELSE Dispatched(l.out, <<d, l>>)
        ELSE Dispatched(Returned(NO_ACTION_SELECTED, FALSE), <<>>)

_process_creditsea(row_data, cd, sl, dresp, lresp) ==
    LET d == DedupeCall(row_data, dresp)
        l == LeadCall(row_data, lresp)
    IN  IF cd /\ ~sl THEN Dispatched(d.out, <<d>>)
        ELSE IF ~cd /\ sl THEN Dispatched(l.out, <<l>>)
        ELSE IF cd /\ sl
        THEN IF d.out.raised # "none" THEN Dispatched(d.out, <<d>>)
             ELSE IF Get(d.out.ret, "status") # "SUCCESS" THEN Dispatched(d.out, <<d>>)
             ELSE IF Get(d.out.ret, "result") = "DUPLICATE"
             THEN Dispatched(Returned(DEDUPE_DUPLICATE, FALSE), <<d>>)
             ELSE Dispatched(l.out, <<d, l>>)
        ELSE Dispatched(Returned(NO_ACTION_SELECTED, FALSE), <<>>)

\* faulty variants of process_lender: one leaves out the check of the flags, the
\* other strips the lender name before it compares it
ProcessLenderNoFlagCheck(lender_name, row_data, cd, sl, dresp, lresp) ==
    IF Lower(lender_name) = n_creditsea
    THEN _process_creditsea(row_data, cd, sl, dresp, lresp)
    ELSE Dispatched(Returned(UNSUPPORTED_LENDER, FALSE), <<>>)

ProcessLenderStripsName(lender_name, row_data, cd, sl, dresp, lresp) ==
    IF ~cd /\ ~sl THEN Dispatched(Returned(NO_ACTION_SELECTED, FALSE), <<>>)
    ELSE IF Lower(Strip(lender_name)) = n_creditsea
    THEN _process_creditsea(row_data, cd, sl, dresp, lresp)
    ELSE Dispatched(Returned(UNSUPPORTED_LENDER, FALSE), <<>>)

process_lender(lender_name, row_data, cd, sl, dresp, lresp) ==
    IF ~cd /\ ~sl THEN Dispatched(Returned(NO_ACTION_SELECTED, FALSE), <<>>)
    ELSE LET lender_lower == Lower(lender_name) IN
         IF lender_lower = n_creditsea
         THEN _process_creditsea(row_data, cd, sl, dresp, lresp)
         ELSE Dispatched(Returned(UNSUPPORTED_LENDER, FALSE), <<>>)

(***************************************************************************)
(* bulk_processor.py                                                       *)
(* The input file is its first line (header: the sequence of its column    *)
(* names, empty when the file has no first line or a blank one) and its    *)
(* other lines, each a sequence of cells; a blank line is the empty        *)
(* sequence.                                                               *)
(***************************************************************************)
\* index of the last occurrence of name k in the header
LastIndex(hdr, k) == CHOOSE i \in 1..Len(hdr) : hdr[i] = k /\ \A j \in i+1..Len(hdr) : hdr[j] # k
FirstIndex(hdr, k) == CHOOSE i \in 1..Len(hdr) : hdr[i] = k /\ \A j \in 1..i-1 : hdr[j] # k

\* csv.DictReader.__next__ on one non-blank line: dict(zip(fieldnames, row)), the
\* surplus cells under restkey None, the missing cells as restval None
DictReaderRow(hdr, line) ==
    LET keys == {hdr[i] : i \in 1..Len(hdr)}
                    \cup (IF Len(line) > Len(hdr) THEN {NoneV} ELSE {})
    IN  [k \in keys |->
            IF k = NoneV THEN SubSeq(line, Len(hdr) + 1, Len(line))
            ELSE IF LastIndex(hdr, k) <= Len(line) THEN line[LastIndex(hdr, k)]
            ELSE NoneV]

\* {k.strip(): v for k, v in row.items()}: of the keys that strip to the same name
\* the one inserted last (first seen last in the header) gives the value
NormalizedRow(hdr, d) ==
    LET names == {Strip(k) : k \in DOMAIN d}
        Last(n) == CHOOSE k \in DOMAIN d :
                      /\ Strip(k) = n
                      /\ \A k2 \in DOMAIN d :
                            Strip(k2) = n => FirstIndex(hdr, k2) <= FirstIndex(hdr, k)
    IN  [n \in names |-> d[Last(n)]]

\* the lines csv.DictReader yields: it skips the rows that are []
DataLines(ls) == SelectSeq(ls, LAMBDA l : l # <<>>)

HasPhone(headers) ==
    \E i \in 1..Len(headers) : headers[i] \in {k_phoneNumber, k_phonenumber, k_mobile}
HasPan(headers) == \E i \in 1..Len(headers) : headers[i] = k_pan

\* faulty variant of HeaderAccepted: the columns are not looked at
HeaderAnyAccepted(hdr) == hdr # <<>>

\* the header passes the checks of _read_and_validate_csv
HeaderAccepted(hdr) ==
    /\ hdr # <<>>
    /\ LET headers == [i \in 1..Len(hdr) |-> Strip(hdr[i])]
       IN  HasPhone(headers) \/ HasPan(headers)

\* _read_and_validate_csv: the rows it returns, or the exception it raises
ReadOk(rs)  == [raised |-> "none", rows |-> rs]
ReadErr(e)  == [raised |-> e, rows |-> <<>>]

_read_and_validate_csv(hdr, ls) ==
    IF ~HeaderAccepted(hdr) THEN ReadErr("ValueError")
    ELSE LET data == DataLines(ls) IN
         IF \E i \in 1..Len(data) : NoneV \in DOMAIN DictReaderRow(hdr, data[i])
         THEN ReadErr("AttributeError")      \* None.strip()
         ELSE ReadOk([i \in 1..Len(data) |-> NormalizedRow(hdr, DictReaderRow(hdr, data[i]))])

\* the result row _process_rows builds from what process_lender returned
ResultRow(row_num, lender, lender_result) ==
    [row_number |-> row_num,
     lender     |-> lender,
     status     |-> GetDefault(lender_result, "status", ""),
     result     |-> GetDefault(lender_result, "result", ""),
     lead_id    |-> GetDefault(lender_result, "lead_id", <<>>),
     utm_link   |-> GetDefault(lender_result, "utm_link", <<>>),
     message    |-> GetDefault(lender_result, "message", <<>>)]

\* csv.DictWriter writes None as the empty string
CsvCell(v) == IF v = NoneV THEN <<>> ELSE v
CsvRow(r) == [r EXCEPT !.message = CsvCell(r.message)]

NotWritten == [written |-> FALSE, rows |-> <<>>]
Written(rs) == [written |-> TRUE, rows |-> [i \in 1..Len(rs) |-> CsvRow(rs[i])]]

(***************************************************************************)
(* Inputs                                                                  *)
(***************************************************************************)
MaxRows    == 2     \* lines of the input file after the header
MaxBlank   == 2     \* required fields of a lead row that are missing or blank

SeqsUpTo(S, n) == UNION {[1..k -> S] : k \in 0..n}

HttpCodes == {200, 304, 404, 500}
JsonLiterals == {"true", "false", "null", "1", Absent}

Http(code, body) == [kind |-> "http", code |-> code, body |-> body]
Failures == {[kind |-> "timeout", code |-> 0, body |-> NoBody],
             [kind |-> "connection", code |-> 0, body |-> NoBody]}
OddBodies == {[shape |-> "notjson"], [shape |-> "list"]}

DedupeBodies ==
    OddBodies \cup {[shape |-> "object", success |-> s, dedupe |-> d] :
                        s \in JsonLiterals, d \in JsonLiterals}
DedupeResponses == Failures \cup {Http(c, b) : c \in HttpCodes, b \in DedupeBodies}

LeadBodies ==
    OddBodies \cup {[shape |-> "object", message |-> m, leadId |-> i, utmLink |-> u] :
                        m \in {SUCCESS_MARKER, "Invalid PAN", "null", Absent},
                        i \in {"L77", Absent}, u \in {"U77", Absent}}
LeadResponses == Failures \cup {Http(c, b) : c \in HttpCodes, b \in LeadBodies}

X == <<"x">>
RequiredSet == {required_fields[i] : i \in 1..Len(required_fields)}
FullRow == [k \in RequiredSet |-> X]

\* a cell that makes a field missing: no such key, None, '' or ' '
BlankKinds == {"nokey", "none", "empty", "space"}
BlankValue(kind) == IF kind = "none" THEN NoneV ELSE IF kind = "empty" THEN <<>> ELSE <<" ">>

RowWithBlanks(S, a) ==
    [k \in RequiredSet \ {f \in S : a[f] = "nokey"} |->
        IF k \in S THEN BlankValue(a[k]) ELSE X]

LeadRows ==
    {[FullRow EXCEPT ![k_pan] = <<" ", "x", " ">>]} \cup
    UNION {{RowWithBlanks(S, a) : a \in [S -> BlankKinds]} :
              S \in {T \in SUBSET RequiredSet : Cardinality(T) <= MaxBlank}}

DispatchRows ==
    {FullRow,
     [FullRow EXCEPT ![k_pan] = <<" ">>],
     [k \in RequiredSet \cup {k_mobile} |->
         IF k = k_phoneNumber THEN <<>> ELSE IF k = k_mobile THEN <<"m">> ELSE X],
     [k \in {k_phonenumber, k_pan} |-> X],
     [k \in {k_first_name} |-> X]}

n_CreditSea == <<"C","r","e","d","i","t","S","e","a">>
n_other     == <<"o","t","h","e","r">>

DispatchLenderNames ==
    {n_creditsea, n_CreditSea, <<"C","R","E","D","I","T","S","E","A">>,
     n_creditsea \o <<" ">>, n_other, <<>>}

\* Whether the dispatcher's outcome holds a POST made by the named client
PostsTo(out, client) ==
    \E i \in 1..Len(out.calls) : out.calls[i].client = client /\ out.calls[i].out.net

\* The outcomes of one process_lender call over the answers the service may give:
\* an answer is drawn for each POST the dispatcher makes, and for no other
ProcessLenderOutcomes(lender_name, row_data, cd, sl, D, L) ==
    LET p0 == process_lender(lender_name, row_data, cd, sl, NoResp, NoResp)
        Ds == IF PostsTo(p0, "dedupe") THEN D ELSE {NoResp}
    IN  UNION {LET p1 == process_lender(lender_name, row_data, cd, sl, d, NoResp)
                   Ls == IF PostsTo(p1, "lead") THEN L ELSE {NoResp}
               IN  {process_lender(lender_name, row_data, cd, sl, d, l) : l \in Ls} :
               d \in Ds}

(***************************************************************************)
(* Harness of the two clients and of the dispatcher: one call, its inputs  *)
(* and its outcome                                                         *)
(***************************************************************************)
Idle == [fn |-> "idle"]

\* the table lenders_lender with no row
NoLenders == [rows |-> <<>>, last_id |-> 0]

Parked ==
    /\ pc = "parked" /\ header = <<>> /\ lines = <<>> /\ lenders = <<>>
    /\ check_dedupe = FALSE /\ send_leads = FALSE /\ rows = <<>>
    /\ row_idx = 0 /\ lender_idx = 0 /\ results = <<>> /\ calls = <<>>
    /\ output = NotWritten /\ exc = "none"

\* no request in progress and nothing stored
NoRequest == [pc |-> "none"]
Empty ==
    /\ users = <<>> /\ leads = <<>> /\ usermeta = <<>> /\ lender_table = NoLenders
    /\ cache = <<>> /\ req = NoRequest

InitHarness == inv = Idle /\ Parked /\ Empty

CallCheckDedupe ==
    /\ inv = Idle
    /\ \E phone \in {NoneV, <<"9">>}, pan \in {NoneV, <<"A">>}, resp \in DedupeResponses :
          inv' = [fn |-> "check_creditsea_dedupe",
                  call |-> ClientCall("dedupe", <<phone, pan>>, resp,
                                      check_creditsea_dedupe(phone, pan, resp))]
    /\ UNCHANGED <<pipelineVars, storeVars, req>>

CallCreateLead ==
    /\ inv = Idle
    /\ \E row_data \in LeadRows, resp \in LeadResponses :
          inv' = [fn |-> "create_creditsea_lead", call |-> LeadCall(row_data, resp)]
    /\ UNCHANGED <<pipelineVars, storeVars, req>>

NextClients == CallCheckDedupe \/ CallCreateLead

SpecClients == InitHarness /\ [][NextClients]_vars

CallProcessLender ==
    /\ inv = Idle
    /\ \E lender_name \in DispatchLenderNames, row_data \in DispatchRows,
          cd \in BOOLEAN, sl \in BOOLEAN :
          \E out \in ProcessLenderOutcomes(lender_name, row_data, cd, sl,
                                           DedupeResponses, LeadResponses) :
              inv' = [fn |-> "process_lender", lender_name |-> lender_name,
                      row_data |-> row_data, check_dedupe |-> cd, send_leads |-> sl,
                      out |-> out]
    /\ UNCHANGED <<pipelineVars, storeVars, req>>

NextDispatch == CallProcessLender

SpecDispatch == InitHarness /\ [][NextDispatch]_vars

(***************************************************************************)
(* process_csv(input_csv_path, output_csv_path, lenders, check_dedupe,     *)
(*             send_leads)                                                 *)
(***************************************************************************)
PipelineHeaders ==
    {<<>>,
     <<k_phoneNumber, k_pan>>,
     << <<" ">> \o k_pan \o <<" ">> >>,
     <<k_first_name>>,
     << <<"P","A","N">> >>,
     required_fields}

\* the lines a file with this header is given: blank, complete, complete with
\* blank cells, one cell short, one cell long
PipelineLines(hdr) ==
    LET n == IF hdr = <<>> THEN 1 ELSE Len(hdr)
    IN  {<<>>, [i \in 1..n |-> X], [i \in 1..n |-> <<" ">>],
         [i \in 1..(n - 1) |-> X], [i \in 1..(n + 1) |-> X]}

\* the lender lists a run is given: none, one or two names, the same name twice
PipelineLenderLists ==
    {<<>>, <<n_CreditSea>>, <<n_other>>, <<n_CreditSea, n_other>>,
     <<n_other, n_CreditSea>>, <<n_CreditSea, n_CreditSea>>}

PipelineDedupeResponses ==
    {[kind |-> "timeout", code |-> 0, body |-> NoBody],
     Http(200, [shape |-> "object", success |-> "true", dedupe |-> "true"]),
     Http(200, [shape |-> "object", success |-> "true", dedupe |-> "false"])}

PipelineLeadResponses ==
    {[kind |-> "timeout", code |-> 0, body |-> NoBody],
     Http(200, [shape |-> "object", message |-> SUCCESS_MARKER,
                leadId |-> "L77", utmLink |-> "U77"])}

Init ==
    /\ inv = Idle
    /\ Empty
    /\ pc = "start"
    /\ header \in PipelineHeaders
    /\ lines \in SeqsUpTo(PipelineLines(header), MaxRows)
    /\ lenders \in PipelineLenderLists
    /\ check_dedupe \in BOOLEAN
    /\ send_leads \in BOOLEAN
    /\ rows = <<>>
    /\ row_idx = 0
    /\ lender_idx = 0
    /\ results = <<>>
    /\ calls = <<>>
    /\ output = NotWritten
    /\ exc = "none"

\* rows = _read_and_validate_csv(input_csv_path)
ReadAndValidate ==
    /\ pc = "start"
    /\ LET r == _read_and_validate_csv(header, lines) IN
       IF r.raised # "none"
       THEN /\ pc' = "raised"
            /\ exc' = r.raised
            /\ UNCHANGED <<rows, row_idx, lender_idx>>
       ELSE /\ pc' = "rows"
            /\ rows' = r.rows
            /\ row_idx' = 1
            /\ lender_idx' = 1
            /\ exc' = "none"
    /\ UNCHANGED <<storeVars, req, inv, header, lines, lenders, check_dedupe, send_leads,
                   results, calls, output>>

\* one pass of the body of "for lender in lenders" in _process_rows
ProcessCombination ==
    /\ pc = "rows"
    /\ row_idx <= Len(rows)
    /\ lender_idx <= Len(lenders)
    /\ \E out \in ProcessLenderOutcomes(lenders[lender_idx], rows[row_idx],
                                        check_dedupe, send_leads,
                                        PipelineDedupeResponses, PipelineLeadResponses) :
          /\ calls' = calls \o [i \in 1..Len(out.calls) |->
                                   [row_number |-> row_idx, lender_no |-> lender_idx,
                                    client |-> out.calls[i].client,
                                    net |-> out.calls[i].out.net,
                                    kind |-> out.calls[i].resp.kind,
                                    failed |-> out.calls[i].out.raised # "none"
                                               \/ Get(out.calls[i].out.ret, "status")
                                                      # "SUCCESS"]]
          /\ IF out.raised # "none"
             THEN /\ pc' = "raised"
                  /\ exc' = out.raised
                  /\ UNCHANGED <<results, lender_idx>>
             ELSE /\ results' = Append(results,
                                       ResultRow(row_idx, lenders[lender_idx], out.ret))
                  /\ lender_idx' = lender_idx + 1
                  /\ UNCHANGED <<pc, exc>>
    /\ UNCHANGED <<storeVars, req, inv, header, lines, lenders, check_dedupe, send_leads, rows,
                   row_idx, output>>

\* "for lender in lenders" is exhausted: the next row of "for row_num, row in enumerate(rows, start=1)"
NextRow ==
    /\ pc = "rows"
    /\ row_idx <= Len(rows)
    /\ lender_idx > Len(lenders)
    /\ row_idx' = row_idx + 1
    /\ lender_idx' = 1
    /\ UNCHANGED <<storeVars, req, inv, pc, header, lines, lenders, check_dedupe, send_leads, rows,
                   results, calls, output, exc>>

\* _process_rows returns; _write_results_csv(output_csv_path, results)
WriteResults ==
    /\ pc = "rows"
    /\ row_idx > Len(rows)
    /\ output' = Written(results)
    /\ pc' = "done"
    /\ UNCHANGED <<storeVars, req, inv, header, lines, lenders, check_dedupe, send_leads, rows,
                   row_idx, lender_idx, results, calls, exc>>

Next == ReadAndValidate \/ ProcessCombination \/ NextRow \/ WriteResults

Spec == Init /\ [][Next]_vars

\* process_csv is one thread that runs from its first statement to its last: a step
\* that can be taken is taken
SpecLive == Spec /\ WF_vars(Next)

(***************************************************************************)
(* crm_admin/views.py, loans/views_admin.py: BulkDedupeAPIView.post         *)
(***************************************************************************)
NoUpload == [present |-> FALSE, header |-> <<>>, lines |-> <<>>]
Upload(hdr, ls) == [present |-> TRUE, header |-> hdr, lines |-> ls]

\* request.FILES.get('file'): nothing, or a file with a header and at most one line
ViewUploads ==
    {NoUpload} \cup
    {Upload(hdr, ls) : hdr \in {<<>>, <<k_phoneNumber, k_pan>>, <<k_first_name>>},
                       ls \in {<<>>, <<(<<X, X>>)>>, <<(<<X>>)>>}}

ViewLenderLists == {<<>>, <<n_CreditSea>>, <<n_other, n_CreditSea>>}

\* what a call of the operating system does: it succeeds or raises OSError
OsOutcomes == {"ok", "OSError"}

NoResponse == [status |-> 0, error |-> ""]
Response400(error) == [status |-> 400, error |-> error]
FileResponse200 == [status |-> 200, error |-> ""]

\* the request as it arrives
Request(uploaded_file, ls, cd, sl) ==
    [pc |-> "request", uploaded_file |-> uploaded_file, lenders |-> ls,
     check_dedupe |-> cd, send_leads |-> sl,
     input_path |-> "absent", output_path |-> "absent",
     input_fd |-> "none", output_fd |-> "none",
     response |-> NoResponse, raised |-> "none"]

\* finally: if os.path.exists(input_path): os.unlink(input_path)
Finally(r) ==
    IF r.input_path = "exists" THEN [r EXCEPT !.input_path = "absent"] ELSE r

InitView ==
    /\ inv = Idle
    /\ Parked
    /\ users = <<>> /\ leads = <<>> /\ usermeta = <<>> /\ lender_table = NoLenders
    /\ cache = <<>>
    /\ req \in {Request(f, ls, cd, sl) : f \in ViewUploads, ls \in ViewLenderLists,
                                         cd \in BOOLEAN, sl \in BOOLEAN}

\* lines 25-43: the two early answers, then the two calls of tempfile.mkstemp,
\* which are made before the try statement is entered
Receive ==
    /\ req.pc = "request"
    /\ IF ~req.uploaded_file.present
       THEN req' = [req EXCEPT !.pc = "responded",
                               !.response = Response400("No file provided")]
       ELSE IF req.lenders = <<>>
       THEN req' = [req EXCEPT !.pc = "responded",
                               !.response = Response400("No lenders selected")]
       ELSE \E mk1 \in OsOutcomes, mk2 \in OsOutcomes :
               IF mk1 # "ok"
               THEN req' = [req EXCEPT !.pc = "raised", !.raised = mk1]
               ELSE IF mk2 # "ok"
               THEN req' = [req EXCEPT !.pc = "raised", !.raised = mk2,
                                       !.input_path = "exists", !.input_fd = "open"]
               ELSE req' = [req EXCEPT !.pc = "staging",
                                       !.input_path = "exists", !.input_fd = "open",
                                       !.output_path = "exists", !.output_fd = "open"]
    /\ UNCHANGED <<inv, pipelineVars, storeVars>>

\* lines 46-50: the upload is written to the input file, which the with statement
\* closes, and the output descriptor is closed; an exception of the write goes to
\* the outer handler and the finally clause
Stage ==
    /\ req.pc = "staging"
    /\ \E wr \in OsOutcomes :
          IF wr # "ok"
          THEN /\ req' = Finally([req EXCEPT !.pc = "responded", !.input_fd = "closed",
                                     !.response = Response400("File processing failed")])
               /\ UNCHANGED pipelineVars
          ELSE /\ req' = [req EXCEPT !.pc = "processing", !.input_fd = "closed",
                                     !.output_fd = "closed"]
               /\ pc' = "start"
               /\ header' = req.uploaded_file.header
               /\ lines' = req.uploaded_file.lines
               /\ lenders' = req.lenders
               /\ check_dedupe' = req.check_dedupe
               /\ send_leads' = req.send_leads
               /\ UNCHANGED <<rows, row_idx, lender_idx, results, calls, output, exc>>
    /\ UNCHANGED <<inv, storeVars>>

\* lines 54-83: process_csv has returned or raised; the answer, then the finally
\* clause
Respond ==
    /\ req.pc = "processing"
    /\ pc \in {"done", "raised"}
    /\ IF pc = "raised"
       THEN req' = Finally([req EXCEPT !.pc = "responded",
                               !.response = IF exc = "ValueError"
                                            THEN Response400("str(e)")
                                            ELSE Response400("Processing failed")])
       ELSE \E op \in OsOutcomes :
               req' = Finally([req EXCEPT !.pc = "responded",
                                  !.response = IF op = "ok" THEN FileResponse200
                                               ELSE Response400("File processing failed")])
    /\ UNCHANGED <<inv, pipelineVars, storeVars>>

NextView ==
    \/ Receive
    \/ Stage
    \/ ReadAndValidate
    \/ ProcessCombination
    \/ NextRow
    \/ WriteResults
    \/ Respond

SpecView == InitView /\ [][NextView]_vars

(***************************************************************************)
(* users/models.py: validate_pan_number                                    *)
(* lenders/models.py, loans/models.py: Lender.is_pincode_allowed           *)
(***************************************************************************)
Digits == <<"0","1","2","3","4","5","6","7","8","9">>

\* the character classes [A-Z] and [0-9] of the pattern
InAZ(c) == \E i \in 1..Len(UpperLetters) : UpperLetters[i] = c
In09(c) == \E i \in 1..Len(Digits) : Digits[i] = c

\* int(s) of a text made of the digits 0-9
RECURSIVE IntOf(_)
IntOf(s) ==
    IF s = <<>> THEN 0
    ELSE 10 * IntOf(SubSeq(s, 1, Len(s) - 1))
         + (CHOOSE i \in 1..Len(Digits) : Digits[i] = s[Len(s)]) - 1

\* re.match(r'^[A-Z]{5}[0-9]{4}[A-Z]{1}$', value): '$' matches at the end of the
\* text and before a newline that ends it
MatchesPanPattern(value) ==
    /\ Len(value) = 10 \/ (Len(value) = 11 /\ value[11] = "\n")
    /\ \A i \in 1..5 : InAZ(value[i])
    /\ \A i \in 6..9 : In09(value[i])
    /\ InAZ(value[10])

valid_fourth_chars == <<"P", "C", "H", "F", "A", "T", "B", "G", "J", "L">>

\* faulty variant of validate_pan_number: the range of the digit part is not checked
ValidatePanNoRange(value) ==
    IF ~Truthy(value) THEN "none"
    ELSE IF Len(value) # 10 THEN "ValidationError"
    ELSE IF ~MatchesPanPattern(value) THEN "ValidationError"
    ELSE IF ~\E i \in 1..Len(valid_fourth_chars) : valid_fourth_chars[i] = value[4]
    THEN "ValidationError"
    ELSE "none"

\* validate_pan_number(value): the exception it raises, "none" when it returns
validate_pan_number(value) ==
    IF ~Truthy(value) THEN "none"
    ELSE IF Len(value) # 10 THEN "ValidationError"
    ELSE IF ~MatchesPanPattern(value) THEN "ValidationError"
    ELSE IF ~\E i \in 1..Len(valid_fourth_chars) : valid_fourth_chars[i] = value[4]
    THEN "ValidationError"
    ELSE LET digit_part  == SubSeq(value, 6, 9)
             digit_value == IntOf(digit_part)
         IN  IF digit_value < 1 \/ digit_value > 9999 THEN "ValidationError" ELSE "none"

\* x in list
InList(x, list) == \E i \in 1..Len(list) : list[i] = x

\* faulty variant of is_pincode_allowed: the blacklist is looked at first
IsPincodeAllowedBlacklistFirst(self, pincode) ==
    IF self.pincodes_blacklisted # <<>>
    THEN ~InList(pincode, self.pincodes_blacklisted)
    ELSE IF self.pincodes_whitelisted # <<>>
    THEN InList(pincode, self.pincodes_whitelisted)
    ELSE TRUE

\* Lender.is_pincode_allowed(self, pincode); an empty list is false
is_pincode_allowed(self, pincode) ==
    IF self.pincodes_whitelisted # <<>>
    THEN InList(pincode, self.pincodes_whitelisted)
    ELSE IF self.pincodes_blacklisted # <<>>
    THEN ~InList(pincode, self.pincodes_blacklisted)
    ELSE TRUE

MaxPins == 2    \* length of a lender's whitelist and of its blacklist

Pincodes == {"400001", "110001", "560001"}

PAN_ABCPM1234Z == <<"A","B","C","P","M","1","2","3","4","Z">>
PAN_ABCQM1234Z == <<"A","B","C","Q","M","1","2","3","4","Z">>
PAN_ABCPM0000Z == <<"A","B","C","P","M","0","0","0","0","Z">>
PAN_ABC123456Z == <<"A","B","C","1","2","3","4","5","6","Z">>

PanValues ==
    {NoneV, <<>>, PAN_ABCPM1234Z, PAN_ABCQM1234Z, PAN_ABCPM0000Z, PAN_ABC123456Z} \cup
    {a \o <<b, c>> \o d \o e :
        a \in {<<"A","B","C">>, <<"a","B","C">>, <<"A","B","1">>},
        b \in {"P","C","H","F","A","T","B","G","J","L","Q","M","p","1"},
        c \in {"M", "1"},
        d \in {<<"1","2","3","4">>, <<"0","0","0","0">>, <<"0","0","0","1">>,
               <<"9","9","9","9">>, <<"1","2","a","4">>, <<"1","2","3">>},
        e \in {<<"Z">>, <<"z">>, <<"1">>, <<>>, <<"Z","Z">>, <<"Z","\n">>}}

CallValidatePan ==
    /\ inv = Idle
    /\ \E value \in PanValues :
          inv' = [fn |-> "validate_pan_number", value |-> value,
                  raised |-> validate_pan_number(value)]
    /\ UNCHANGED <<pipelineVars, storeVars, req>>

CallIsPincodeAllowed ==
    /\ inv = Idle
    /\ \E w \in SeqsUpTo(Pincodes, MaxPins), b \in SeqsUpTo(Pincodes, MaxPins),
          pincode \in Pincodes :
          LET self == [pincodes_whitelisted |-> w, pincodes_blacklisted |-> b] IN
          inv' = [fn |-> "is_pincode_allowed", self |-> self, pincode |-> pincode,
                  ret |-> is_pincode_allowed(self, pincode)]
    /\ UNCHANGED <<pipelineVars, storeVars, req>>

NextValidators == CallValidatePan \/ CallIsPincodeAllowed

SpecValidators == InitHarness /\ [][NextValidators]_vars

(***************************************************************************)
(* Python text and dates used by the upserts                               *)
(***************************************************************************)
\* str.upper() on the ASCII letters
UpperChar(c) ==
    IF \E i \in 1..Len(LowerLetters) : LowerLetters[i] = c
    THEN UpperLetters[CHOOSE i \in 1..Len(LowerLetters) : LowerLetters[i] = c]
    ELSE c

Upper(s) == [i \in 1..Len(s) |-> UpperChar(s[i])]

\* ''.join(filter(str.isdigit, s))
DigitsOnly(s) == SelectSeq(s, In09)

\* s.isdigit()
IsDigit(s) == s # <<>> /\ \A i \in 1..Len(s) : In09(s[i])

\* s.zfill(width)
RECURSIVE ZFill(_, _)
ZFill(s, width) ==
    IF Len(s) >= width THEN s
    ELSE IF s # <<>> /\ s[1] \in {"+", "-"}
    THEN <<s[1]>> \o ZFill(<<"0">> \o Tail(s), width - 1)
    ELSE ZFill(<<"0">> \o s, width)

\* s.split(sep) for a separator of one character
RECURSIVE Split(_, _)
Split(s, sep) ==
    IF \E i \in 1..Len(s) : s[i] = sep
    THEN LET i == CHOOSE j \in 1..Len(s) :
                      s[j] = sep /\ \A k \in 1..(j - 1) : s[k] # sep
         IN  <<SubSeq(s, 1, i - 1)>> \o Split(SubSeq(s, i + 1, Len(s)), sep)
    ELSE <<s>>

\* a date is <<year, month, day>>; None is <<>>
NoDate == <<>>

IsLeap(y) == (y % 4 = 0 /\ y % 100 # 0) \/ y % 400 = 0

DaysInMonth(y, m) ==
    IF m = 2 THEN (IF IsLeap(y) THEN 29 ELSE 28)
    ELSE IF m \in {4, 6, 9, 11} THEN 30 ELSE 31

\* datetime.strptime(s, fmt).date() for the formats made of %Y, %m and %d with one
\* separator: order gives the positions of year, month and day; <<0>> stands for ValueError
StrptimeError == <<0>>

Strptime(s, order, sep) ==
    LET parts == Split(s, sep) IN
    IF Len(parts) # 3 THEN StrptimeError
    ELSE LET ys == parts[order[1]]  ms == parts[order[2]]  ds == parts[order[3]] IN
         IF ~(IsDigit(ys) /\ Len(ys) = 4 /\ IsDigit(ms) /\ Len(ms) <= 2
              /\ IsDigit(ds) /\ Len(ds) <= 2)
         THEN StrptimeError
         ELSE LET y == IntOf(ys)  m == IntOf(ms)  d == IntOf(ds) IN
              IF y >= 1 /\ m >= 1 /\ m <= 12 /\ d >= 1 /\ d <= DaysInMonth(y, m)
              THEN <<y, m, d>>
              ELSE StrptimeError

\* '%Y-%m-%d'
StrptimeYmdDash(s) == Strptime(s, <<1, 2, 3>>, "-")

\* for fmt in ('%Y-%m-%d', '%d-%m-%Y', '%d/%m/%Y', '%Y/%m/%d'): the first format
\* that parses; NoDate when none does
ParseCsvDate(s) ==
    IF Strptime(s, <<1, 2, 3>>, "-") # StrptimeError THEN Strptime(s, <<1, 2, 3>>, "-")
    ELSE IF Strptime(s, <<3, 2, 1>>, "-") # StrptimeError THEN Strptime(s, <<3, 2, 1>>, "-")
    ELSE IF Strptime(s, <<3, 2, 1>>, "/") # StrptimeError THEN Strptime(s, <<3, 2, 1>>, "/")
    ELSE IF Strptime(s, <<1, 2, 3>>, "/") # StrptimeError THEN Strptime(s, <<1, 2, 3>>, "/")
    ELSE NoDate

\* an age is <<years>>; None is <<>>
NoAge == <<>>

\* (today.month, today.day) < (dob.month, dob.day)
MonthDayBefore(today, dob) ==
    today[2] < dob[2] \/ (today[2] = dob[2] /\ today[3] < dob[3])

\* users/models.py calculate_age(dob), with date.today() as second argument
calculate_age(dob, today) ==
    IF dob = NoDate THEN NoAge
    ELSE <<today[1] - dob[1] - (IF MonthDayBefore(today, dob) THEN 1 ELSE 0)>>

\* loans/models.py calculate_age_from_dob(dob), with date.today() as second argument
calculate_age_from_dob(dob, today) ==
    IF dob = NoDate THEN NoAge
    ELSE <<today[1] - dob[1] - (IF MonthDayBefore(today, dob) THEN 1 ELSE 0)>>

(***************************************************************************)
(* users/models.py: validators, User, User.save                            *)
(* loans/models.py: Lead, Lead.save                                        *)
(***************************************************************************)
\* validate_phone_number(value): TRUE when it raises ValidationError
validate_phone_number(value) ==
    \/ value = <<>>
    \/ ~IsDigit(value)
    \/ Len(value) # 10

\* validate_pin_code(value): TRUE when it raises ValidationError
validate_pin_code(value) ==
    /\ value # <<>>
    /\ ~IsDigit(value) \/ Len(value) # 6

\* User(): the fields of a new instance before any is assigned
NewUser ==
    [id |-> 0, phone_number |-> <<>>, password |-> <<>>, first_name |-> <<>>,
     last_name |-> <<>>, pan_number |-> <<>>, pin_code |-> <<>>, city |-> <<>>,
     date_of_birth |-> NoDate, age |-> NoAge]

\* the fields a caller may assign
DataFields == {"phone_number", "first_name", "last_name", "pan_number", "pin_code",
               "city", "date_of_birth"}

\* setattr(instance, key, value) for every item of a dict of fields
SetAttrs(instance, fields) ==
    [f \in DOMAIN instance |-> IF f \in DOMAIN fields THEN fields[f] ELSE instance[f]]

\* the rows of a table other than the row of this instance
Others(table, instance) == {i \in 1..Len(table) : table[i].id # instance.id}

\* unique=True on User.phone_number, UniqueConstraint(fields=['phone_number']) on Lead
PhoneTaken(table, instance) ==
    \E i \in Others(table, instance) : table[i].phone_number = instance.phone_number

\* UniqueConstraint(fields=['pan_number']) on Lead
PanTaken(table, instance) ==
    \E i \in Others(table, instance) : table[i].pan_number = instance.pan_number

\* User.full_clean(): clean_fields (a field without blank=True may not be empty,
\* max_length, the validators), clean() and validate_unique; TRUE when it raises
\* ValidationError
full_clean(table, u) ==
    \/ u.phone_number = <<>> \/ Len(u.phone_number) > 10 \/ validate_phone_number(u.phone_number)
    \/ u.password = <<>>
    \/ u.pan_number = <<>> \/ Len(u.pan_number) > 10
    \/ validate_pan_number(u.pan_number) # "none"
    \/ u.first_name = <<>>
    \/ u.last_name = <<>>
    \/ u.pin_code = <<>> \/ Len(u.pin_code) > 6 \/ validate_pin_code(u.pin_code)
    \/ PhoneTaken(table, u)

\* the table after the INSERT or the UPDATE of the row of an instance
Saved(table, instance) ==
    IF instance.id = 0
    THEN Append(table, [instance EXCEPT !.id = Len(table) + 1])
    ELSE [i \in 1..Len(table) |-> IF table[i].id = instance.id THEN instance ELSE table[i]]

\* what a write returns: the exception it raised or "none", the table afterwards
\* and the instance as it was written
Wrote(table, instance) == [raised |-> "none", table |-> table, instance |-> instance]
Failed(e, table, instance) == [raised |-> e, table |-> table, instance |-> instance]

\* User.save(): the age from date_of_birth, full_clean(), then the INSERT or UPDATE
UserSave(table, u, today) ==
    LET self == [u EXCEPT !.age = IF u.date_of_birth # NoDate
                                  THEN calculate_age(u.date_of_birth, today)
                                  ELSE NoAge]
    IN  IF full_clean(table, self) THEN Failed("ValidationError", table, self)
        ELSE IF PhoneTaken(table, self) THEN Failed("IntegrityError", table, self)
        ELSE Wrote(Saved(table, self),
                   IF self.id = 0 THEN [self EXCEPT !.id = Len(table) + 1] ELSE self)

\* a keyword argument that is not a field of User, for which User(**kwargs) raises TypeError
NotAField(fields) == \E k \in DOMAIN fields : k \notin DOMAIN NewUser

\* User.objects.create(**kwargs): User(**kwargs) and save(force_insert=True)
UserObjectsCreate(table, kwargs, today) ==
    IF NotAField(kwargs) THEN Failed("TypeError", table, NewUser)
    ELSE UserSave(table, SetAttrs(NewUser, kwargs), today)

\* the password set_unusable_password() stores: "!" and a random suffix
UNUSABLE_PASSWORD == <<"!">>

\* UserManager.create_user(phone_number, password=None, **extra_fields)
create_user(table, phone_number, extra_fields, today) ==
    IF phone_number = <<>> THEN Failed("ValueError", table, NewUser)
    ELSE IF ~IsDigit(phone_number) \/ Len(phone_number) # 10
    THEN Failed("ValueError", table, NewUser)
    ELSE IF NotAField(extra_fields) THEN Failed("TypeError", table, NewUser)
    ELSE LET user == [SetAttrs(NewUser, extra_fields) EXCEPT
                          !.phone_number = phone_number,
                          !.password = UNUSABLE_PASSWORD]
         IN  UserSave(table, user, today)

\* User.objects.get(phone_number=...): the index of the row, 0 for DoesNotExist
GetByPhone(table, phone_number) ==
    IF \E i \in 1..Len(table) : table[i].phone_number = phone_number
    THEN CHOOSE i \in 1..Len(table) : table[i].phone_number = phone_number
    ELSE 0

(***************************************************************************)
(* loans/services/lead_csv_processor.py, users/utils.py: the two upserts   *)
(***************************************************************************)
k_phone_number  == <<"p","h","o","n","e","_","n","u","m","b","e","r">>
k_pan_number    == <<"p","a","n","_","n","u","m","b","e","r">>
k_pin_code      == <<"p","i","n","_","c","o","d","e">>
k_pincode       == <<"p","i","n","c","o","d","e">>
k_city          == <<"c","i","t","y">>
k_date_of_birth == <<"d","a","t","e","_","o","f","_","b","i","r","t","h">>
k_status        == <<"s","t","a","t","u","s">>

\* {k.lower().strip(): v for k, v in data_dict.items() if v}
NormalizedNonEmpty(data_dict) ==
    LET kept == {k \in DOMAIN data_dict : data_dict[k] # <<>>} IN
    [n \in {Strip(Lower(k)) : k \in kept} |->
        data_dict[CHOOSE k \in kept : Strip(Lower(k)) = n]]

\* {k.lower().strip(): v for k, v in data_dict.items()}
Normalized(data_dict) ==
    [n \in {Strip(Lower(k)) : k \in DOMAIN data_dict} |->
        data_dict[CHOOSE k \in DOMAIN data_dict : Strip(Lower(k)) = n]]

\* data.get(key, data.get(other, '')).strip()
Get2Strip(data, key, other) == Strip(GetDefault(data, key, GetDefault(data, other, <<>>)))

STATUS_VALUES == {<<"p","e","n","d","i","n","g">>, <<"a","p","p","r","o","v","e","d">>,
                  <<"r","e","j","e","c","t","e","d">>}

\* a dict of fields from the values that were given
FieldsOf(present, values) == [f \in present |-> values[f]]

\* what an upsert returns: the exception it raised or "none", the created flag, the
\* table afterwards
Upserted(w, created) == [raised |-> w.raised, created |-> created /\ w.raised = "none",
                         table |-> w.table]
Rejected(e, table) == [raised |-> e, created |-> FALSE, table |-> table]

\* what the first part of an upsert leaves: the exception it raised or "none", the
\* cleaned phone number and the dict of the other fields
Prepared(phone_number, fields) ==
    [raised |-> "none", phone_number |-> phone_number, fields |-> fields]
NotPrepared(e) == [raised |-> e, phone_number |-> <<>>, fields |-> <<>>]

\* the dict lead_data of create_or_update_lead_from_csv_row, phone_number excepted
LeadData(data) ==
    LET first_name == Strip(GetDefault(data, k_first_name, <<>>))
        last_name  == Strip(GetDefault(data, k_last_name, <<>>))
        pan_number == Upper(Get2Strip(data, k_pan_number, k_pan))
        pin        == Get2Strip(data, k_pin_code, k_pincode)
        pin_code   == IF Len(pin) # 6 THEN ZFill(pin, 6) ELSE pin
        dob        == Get2Strip(data, k_date_of_birth, k_dob)
        date       == IF dob # <<>> THEN ParseCsvDate(dob) ELSE NoDate
        status     == Lower(Strip(GetDefault(data, k_status, <<>>)))
        values     == [first_name |-> first_name, last_name |-> last_name,
                       pan_number |-> pan_number, pin_code |-> pin_code,
                       date_of_birth |-> date,
                       city |-> Strip(GetDefault(data, k_city, <<>>)),
                       status |-> status]
        present    == {f \in {"first_name", "last_name", "pan_number"} : values[f] # <<>>}
                      \cup (IF pin # <<>> THEN {"pin_code"} ELSE {})
                      \cup (IF date # NoDate THEN {"date_of_birth"} ELSE {})
                      \cup (IF k_city \in DOMAIN data THEN {"city"} ELSE {})
                      \cup (IF status \in STATUS_VALUES THEN {"status"} ELSE {})
    IN  FieldsOf(present, values)

\* faulty variant of the first part of create_or_update_lead_from_csv_row: of a
\* phone number longer than 10 digits the last 10 digits are kept
LeadRowKeepsLastTen(data_dict) ==
    LET data   == NormalizedNonEmpty(data_dict)
        given  == Strip(GetDefault(data, k_phone_number, <<>>))
        digits == DigitsOnly(given)
        phone_number == IF Len(digits) > 10 THEN SubSeq(digits, Len(digits) - 9, Len(digits))
                        ELSE digits
    IN  IF given = <<>> THEN NotPrepared("ValidationError")
        ELSE IF Len(phone_number) # 10 THEN NotPrepared("ValidationError")
        ELSE Prepared(phone_number, LeadData(data))

\* create_or_update_lead_from_csv_row, lines 47-165: the keys, the phone number and
\* the optional fields
LeadRow(data_dict) ==
    LET data   == NormalizedNonEmpty(data_dict)
        given  == Strip(GetDefault(data, k_phone_number, <<>>))
        phone_number == DigitsOnly(given)
    IN  IF given = <<>> THEN NotPrepared("ValidationError")
        ELSE IF Len(phone_number) # 10 THEN NotPrepared("ValidationError")
        ELSE Prepared(phone_number, LeadData(data))

\* create_or_update_lead_from_csv_row, lines 167-180: the existing record is
\* updated, or a new one is created
LeadUpsert(table, row, today) ==
    IF row.raised # "none" THEN Rejected(row.raised, table)
    ELSE LET i == GetByPhone(table, row.phone_number) IN
         IF i # 0
         THEN Upserted(UserSave(table, SetAttrs(table[i], row.fields), today), FALSE)
         ELSE Upserted(UserObjectsCreate(table,
                           [f \in DOMAIN row.fields \cup {"phone_number"} |->
                               IF f = "phone_number" THEN row.phone_number
                               ELSE row.fields[f]],
                           today), TRUE)

\* the dict user_data of create_or_update_user_from_csv_row
UserData(data) ==
    LET pan_number == Upper(Get2Strip(data, k_pan_number, k_pan))
        dob        == Get2Strip(data, k_date_of_birth, k_dob)
        date       == IF dob # <<>> THEN ParseCsvDate(dob) ELSE NoDate
        pin        == Get2Strip(data, k_pin_code, k_pincode)
        values     == [first_name |-> Strip(GetDefault(data, k_first_name, <<>>)),
                       last_name |-> Strip(GetDefault(data, k_last_name, <<>>)),
                       pan_number |-> pan_number, pin_code |-> DigitsOnly(pin),
                       date_of_birth |-> date,
                       city |-> Strip(GetDefault(data, k_city, <<>>))]
        present    == {"first_name", "last_name"}
                      \cup (IF pan_number # <<>> THEN {"pan_number"} ELSE {})
                      \cup (IF date # NoDate THEN {"date_of_birth"} ELSE {})
                      \cup (IF values.city # <<>> THEN {"city"} ELSE {})
                      \cup (IF pin # <<>> THEN {"pin_code"} ELSE {})
    IN  FieldsOf(present, values)

\* create_or_update_user_from_csv_row, lines 45-177: the keys, the phone number and
\* the other fields
UserRow(data_dict) ==
    LET data  == Normalized(data_dict)
        given == Strip(GetDefault(data, k_phone_number, <<>>))
    IN  IF given = <<>> THEN NotPrepared("ValidationError")
        ELSE IF Strip(GetDefault(data, k_first_name, <<>>)) = <<>>
                \/ Strip(GetDefault(data, k_last_name, <<>>)) = <<>>
        THEN NotPrepared("ValidationError")
        ELSE Prepared(DigitsOnly(given), UserData(data))

\* create_or_update_user_from_csv_row, lines 179-198: the existing record is
\* updated, or a new one is created with create_user
UserUpsert(table, row, today) ==
    IF row.raised # "none" THEN Rejected(row.raised, table)
    ELSE LET i == GetByPhone(table, row.phone_number) IN
         IF i # 0
         THEN Upserted(UserSave(table, SetAttrs(table[i], row.fields), today), FALSE)
         ELSE Upserted(create_user(table, row.phone_number, row.fields, today), TRUE)

(***************************************************************************)
(* loans/models.py: Lead.save and the post_save receiver                   *)
(* create_user_from_lead                                                   *)
(***************************************************************************)
\* Lead(): the fields of a new instance before any is assigned
NewLead ==
    [id |-> 0, phone_number |-> <<>>, first_name |-> <<>>, last_name |-> <<>>,
     pan_number |-> <<>>, pin_code |-> <<>>, city |-> <<>>,
     date_of_birth |-> NoDate, age |-> NoAge]

\* a or b for two texts, and for two dates
OrText(a, b) == IF a # <<>> THEN a ELSE b
OrDate(a, b) == IF a # NoDate THEN a ELSE b

\* create_user_from_lead(sender, instance, created): the user with the phone number
\* of the lead is updated with QuerySet.update(), without validation; when there is
\* none, User.objects.create(...) is called
create_user_from_lead(table, instance, today) ==
    LET i == GetByPhone(table, instance.phone_number) IN
    IF i # 0
    THEN LET user == table[i]
             date_of_birth == OrDate(instance.date_of_birth, user.date_of_birth)
             updated == [user EXCEPT
                            !.first_name = instance.first_name,
                            !.last_name = instance.last_name,
                            !.pan_number = instance.pan_number,
                            !.pin_code = instance.pin_code,
                            !.date_of_birth = date_of_birth,
                            !.age = calculate_age_from_dob(date_of_birth, today),
                            !.city = OrText(instance.city, user.city)]
         IN  Wrote(Saved(table, updated), updated)
    ELSE UserObjectsCreate(table,
             [phone_number |-> instance.phone_number, first_name |-> instance.first_name,
              last_name |-> instance.last_name, pan_number |-> instance.pan_number,
              pin_code |-> instance.pin_code, date_of_birth |-> instance.date_of_birth,
              city |-> instance.city],
             today)

\* the constraints unique_phone_number and unique_pan_number of loans_lead; TRUE
\* when the row of the instance is refused with IntegrityError
LeadConstraintsUnchecked(table, instance) == FALSE

LeadConstraints(table, instance) ==
    PhoneTaken(table, instance) \/ PanTaken(table, instance)

\* the fields LeadUpdateView of loans/views_admin.py lists in update_fields
LEAD_UPDATE_FIELDS ==
    {"first_name", "last_name", "phone_number", "pan_number", "date_of_birth", "city",
     "pin_code"}

\* Lead.save(update_fields=[...]) of a stored lead: the age is set on the instance,
\* the UPDATE writes the listed fields only
LeadSave(table, lead, update_fields, today) ==
    LET self == [lead EXCEPT !.age = IF lead.date_of_birth # NoDate
                                     THEN calculate_age_from_dob(lead.date_of_birth, today)
                                     ELSE NoAge]
        stored == CHOOSE r \in {table[i] : i \in 1..Len(table)} : r.id = lead.id
        row == [f \in DOMAIN self |-> IF f \in update_fields THEN self[f] ELSE stored[f]]
    IN  IF LeadConstraints(table, row) THEN Failed("IntegrityError", table, self)
        ELSE Wrote(Saved(table, row), self)

(***************************************************************************)
(* loans/views_admin.py: BulkUploadView.post, LeadUpdateView.post          *)
(***************************************************************************)
\* JsonResponse(..., status=...)
Json(status, error) == [status |-> status, error |-> error]

\* request.POST.get(key, default)
PostGet(POST, key, default) == IF key \in DOMAIN POST THEN POST[key] ELSE default

\* the loop of BulkUploadView.post over the cached rows: rows whose phone number or
\* PAN is stored or came earlier in the batch are skipped
RECURSIVE LeadsToCreate(_, _, _)
LeadsToCreate(cached, existing_phones, existing_pans) ==
    IF cached = <<>> THEN <<>>
    ELSE LET cached_row == Head(cached) IN
         IF cached_row.phone_number \in existing_phones \/ cached_row.pan_number \in existing_pans
         THEN LeadsToCreate(Tail(cached), existing_phones, existing_pans)
         ELSE <<[NewLead EXCEPT !.first_name = cached_row.first_name,
                                !.last_name = cached_row.last_name,
                                !.phone_number = cached_row.phone_number,
                                !.pan_number = cached_row.pan_number,
                                !.date_of_birth = IF cached_row.date_of_birth = <<>> THEN NoDate
                                                  ELSE StrptimeYmdDash(cached_row.date_of_birth),
                                !.city = cached_row.city,
                                !.pin_code = cached_row.pin_code]>>
              \o LeadsToCreate(Tail(cached), existing_phones \cup {cached_row.phone_number},
                               existing_pans \cup {cached_row.pan_number})

\* Lead.objects.bulk_create(objs): the cached are inserted as they are, Lead.save is
\* not called and no signal is sent
RECURSIVE bulk_create(_, _)
bulk_create(table, objs) ==
    IF objs = <<>> THEN table
    ELSE bulk_create(Saved(table, Head(objs)), Tail(objs))

\* BulkUploadView.post of loans/views_admin.py, after the session was found
LoansBulkUpload(table, cached) ==
    LET existing_phones == {table[i].phone_number : i \in 1..Len(table)}
        existing_pans   == {table[i].pan_number : i \in 1..Len(table)}
        leads_to_create == LeadsToCreate(cached, existing_phones, existing_pans)
    IN  [response |-> Json(200, ""), created_count |-> Len(leads_to_create),
         table |-> bulk_create(table, leads_to_create)]

\* what LeadUpdateView.post leaves: its answer and the two tables
Updated(response, lead_table, user_table) ==
    [response |-> response, leads |-> lead_table, users |-> user_table]

\* LeadUpdateView.post(request, lead_id) of loans/views_admin.py
LoansLeadUpdate(lead_table, user_table, lead_id, POST, today) ==
    IF ~\E i \in 1..Len(lead_table) : lead_table[i].id = lead_id
    THEN Updated(Json(404, "Lead not found"), lead_table, user_table)
    ELSE LET stored == lead_table[CHOOSE i \in 1..Len(lead_table) : lead_table[i].id = lead_id]
             dob == PostGet(POST, "date_of_birth", <<>>)
             date == IF dob # <<>> THEN StrptimeYmdDash(dob) ELSE stored.date_of_birth
             lead == [stored EXCEPT
                        !.first_name = PostGet(POST, "first_name", stored.first_name),
                        !.last_name = PostGet(POST, "last_name", stored.last_name),
                        !.phone_number = PostGet(POST, "phone_number", stored.phone_number),
                        !.pan_number = PostGet(POST, "pan_number", stored.pan_number),
                        !.city = PostGet(POST, "city", stored.city),
                        !.pin_code = PostGet(POST, "pin_code", stored.pin_code),
                        !.date_of_birth = date]
         IN  IF date = StrptimeError
             THEN Updated(Json(400, "ValueError"), lead_table, user_table)
             ELSE LET saved == LeadSave(lead_table, lead, LEAD_UPDATE_FIELDS, today) IN
                  IF saved.raised # "none"
                  THEN Updated(Json(400, saved.raised), lead_table, user_table)
                  ELSE LET signal == create_user_from_lead(user_table, saved.instance, today) IN
                       IF signal.raised # "none"
                       THEN Updated(Json(400, signal.raised), saved.table, user_table)
                       ELSE Updated(Json(200, ""), saved.table, signal.table)

(***************************************************************************)
(* crm_admin/views.py: LeadCreateView.post, LeadUpdateView.post            *)
(***************************************************************************)
\* what a view of crm_admin leaves: its answer, or the exception that leaves post,
\* and the table
Answered(response, table) == [response |-> response, raised |-> "none", table |-> table]
Escaped(e, table) == [response |-> Json(500, e), raised |-> e, table |-> table]

\* LeadCreateView.post(request)
CrmLeadCreate(table, POST, today) ==
    LET given == Strip(PostGet(POST, "phone_number", <<>>))
        phone_number == DigitsOnly(given)
        pan == Upper(Strip(PostGet(POST, "pan", <<>>)))
        dob == Strip(PostGet(POST, "dob", <<>>))
        values == [first_name |-> Strip(PostGet(POST, "first_name", <<>>)),
                   last_name |-> Strip(PostGet(POST, "last_name", <<>>)),
                   pan_number |-> pan,
                   pin_code |-> Strip(PostGet(POST, "pin_code", <<>>)),
                   city |-> Strip(PostGet(POST, "city", <<>>))]
        user == SetAttrs([NewUser EXCEPT !.phone_number = phone_number],
                         FieldsOf({f \in DOMAIN values : values[f] # <<>>}, values))
    IN  IF given = <<>> THEN Answered(Json(400, "Phone number is required"), table)
        ELSE IF Len(phone_number) # 10
        THEN Answered(Json(400, "Phone number must be exactly 10 digits"), table)
        ELSE IF GetByPhone(table, phone_number) # 0
        THEN Answered(Json(400, "A user with this phone number already exists"), table)
        ELSE IF dob # <<>> /\ StrptimeYmdDash(dob) = StrptimeError
        THEN Answered(Json(400, "Invalid date format. Use YYYY-MM-DD"), table)
        ELSE IF dob # <<>>
        \* from users.models import calculate_age_from_dob: users.models defines no
        \* such name
        THEN Answered(Json(400, "ImportError"), table)
        ELSE LET saved == UserSave(table, user, today) IN
             IF saved.raised # "none" THEN Answered(Json(400, saved.raised), table)
             ELSE Answered(Json(200, ""), saved.table)

\* the fields LeadUpdateView of crm_admin/views.py lists in update_fields; status is
\* not a field of User
CRM_UPDATE_FIELDS ==
    {"first_name", "last_name", "phone_number", "pan_number", "date_of_birth", "age",
     "city", "pin_code", "status"}

\* User.save(update_fields=[...]): the age, full_clean(), then Model.save, which
\* raises ValueError for a name that is not a field before anything is written
UserSaveFields(table, u, update_fields, today) ==
    LET self == [u EXCEPT !.age = IF u.date_of_birth # NoDate
                                  THEN calculate_age(u.date_of_birth, today)
                                  ELSE NoAge]
        stored == CHOOSE r \in {table[i] : i \in 1..Len(table)} : r.id = u.id
        row == [f \in DOMAIN self |-> IF f \in update_fields THEN self[f] ELSE stored[f]]
    IN  IF full_clean(table, self) THEN Failed("ValidationError", table, self)
        ELSE IF \E f \in update_fields : f \notin DOMAIN NewUser
        THEN Failed("ValueError", table, self)
        ELSE IF PhoneTaken(table, row) THEN Failed("IntegrityError", table, self)
        ELSE Wrote(Saved(table, row), self)

\* LeadUpdateView.post(request, lead_id): an exception raised inside the try
\* statement reaches "except Lead.DoesNotExist", and crm_admin/views.py defines no
\* name Lead, so NameError leaves post
CrmLeadUpdate(table, lead_id, POST, today) ==
    IF ~\E i \in 1..Len(table) : table[i].id = lead_id
    THEN Escaped("NameError", table)
    ELSE LET stored == table[CHOOSE i \in 1..Len(table) : table[i].id = lead_id]
             given == Strip(PostGet(POST, "phone_number", <<>>))
             new_phone == DigitsOnly(given)
             changes == given # <<>> /\ given # stored.phone_number
             dob == PostGet(POST, "date_of_birth", <<>>)
             lead == [stored EXCEPT
                        !.first_name = PostGet(POST, "first_name", stored.first_name),
                        !.last_name = PostGet(POST, "last_name", stored.last_name),
                        !.phone_number = IF changes THEN new_phone ELSE stored.phone_number,
                        !.pan_number = PostGet(POST, "pan_number", stored.pan_number),
                        !.city = PostGet(POST, "city", stored.city),
                        !.pin_code = PostGet(POST, "pin_code", stored.pin_code)]
         IN  IF changes /\ Len(new_phone) # 10
             THEN Answered(Json(400, "Phone number must be exactly 10 digits"), table)
             ELSE IF changes /\ \E i \in 1..Len(table) :
                                   table[i].phone_number = new_phone /\ table[i].id # lead_id
             THEN Answered(Json(400, "A user with this phone number already exists"), table)
             ELSE IF dob # <<>> /\ StrptimeYmdDash(dob) = StrptimeError
             THEN Answered(Json(400, "Invalid date format. Use YYYY-MM-DD"), table)
             ELSE IF dob # <<>> THEN Escaped("NameError", table)
             ELSE LET saved == UserSaveFields(table, lead, CRM_UPDATE_FIELDS, today) IN
                  IF saved.raised # "none" THEN Escaped("NameError", table)
                  ELSE Answered(Json(200, ""), saved.table)

(***************************************************************************)
(* The store under its operations: the two CSV upserts, the bulk upload of *)
(* leads and the direct creations and updates                              *)
(***************************************************************************)
PHONE_1           == <<"9","8","7","6","5","4","3","2","1","0">>
PHONE_1_FORMATTED == <<" ","9","8","7","6","5","-","4","3","2","1","0"," ">>
PHONE_2           == <<"9","1","2","3","4","5","6","7","8","9">>
PHONE_SHORT       == <<"1","2","3","4","5">>
PHONE_LONG        == <<"+","9","1"," ","9","8","7","6","5"," ","4","3","2","1","0">>
PHONE_NO_DIGITS   == <<"n","/","a">>
PAN_XYZPC5678A    == <<"X","Y","Z","P","C","5","6","7","8","A">>
PAN_LOWER         == <<"a","b","c","p","m","1","2","3","4","z">>
PIN_400001        == <<"4","0","0","0","0","1">>
PIN_4001          == <<"4","0","0","1">>
DOB_1990          == <<"1","9","9","0","-","0","6","-","1","5">>
DOB_1991_SLASHES  == <<"1","6","/","0","6","/","1","9","9","1">>
DOB_1991          == <<"1","9","9","1","-","0","6","-","1","6">>
DOB_JUNK          == <<"j","u","n","k">>
NAME_A            == <<"A","s","h","a">>
NAME_B            == <<"R","a","o">>
NAME_C            == <<"A","s","h","a"," ","K">>
CITY_X            == <<"P","u","n","e">>
k_Phone_Number    == <<" ","P","h","o","n","e","_","N","u","m","b","e","r">>

\* the rows a CSV upsert is given: mappings of text to text
CsvMaps ==
    {\* every field, the phone number and its key as a spreadsheet writes them
     (k_Phone_Number :> PHONE_1_FORMATTED) @@ (k_first_name :> NAME_A)
         @@ (k_last_name :> NAME_B) @@ (k_pan :> PAN_LOWER) @@ (k_pin_code :> PIN_400001)
         @@ (k_dob :> DOB_1990) @@ (k_city :> CITY_X),
     \* the phone number alone
     (k_phone_number :> PHONE_1),
     \* another person, no date of birth
     (k_phone_number :> PHONE_2) @@ (k_first_name :> NAME_A) @@ (k_last_name :> NAME_B)
         @@ (k_pan_number :> PAN_XYZPC5678A) @@ (k_pin_code :> PIN_400001),
     \* new values for some fields of the first person, the others empty or blank
     (k_phone_number :> PHONE_1) @@ (k_first_name :> NAME_C) @@ (k_last_name :> NAME_B)
         @@ (k_date_of_birth :> DOB_1991_SLASHES) @@ (k_city :> <<" ">>)
         @@ (k_pan_number :> <<>>),
     \* a PAN with a wrong 4th letter, a short pin code, a status
     (k_phone_number :> PHONE_1) @@ (k_first_name :> NAME_A) @@ (k_last_name :> NAME_B)
         @@ (k_pan_number :> PAN_ABCQM1234Z) @@ (k_pin_code :> PIN_400001),
     (k_phone_number :> PHONE_2) @@ (k_first_name :> NAME_A) @@ (k_last_name :> NAME_B)
         @@ (k_pan_number :> PAN_XYZPC5678A) @@ (k_pincode :> PIN_4001)
         @@ (k_status :> <<"P","e","n","d","i","n","g">>),
     \* malformed and missing phone numbers
     (k_phone_number :> PHONE_SHORT) @@ (k_first_name :> NAME_A) @@ (k_last_name :> NAME_B)
         @@ (k_pan_number :> PAN_ABCPM1234Z) @@ (k_pin_code :> PIN_400001),
     (k_phone_number :> PHONE_LONG) @@ (k_first_name :> NAME_A) @@ (k_last_name :> NAME_B)
         @@ (k_pan_number :> PAN_ABCPM1234Z) @@ (k_pin_code :> PIN_400001),
     (k_phone_number :> PHONE_NO_DIGITS) @@ (k_first_name :> NAME_A) @@ (k_last_name :> NAME_B),
     (k_phone_number :> <<" "," ">>) @@ (k_first_name :> NAME_A) @@ (k_last_name :> NAME_B),
     (k_first_name :> NAME_A) @@ (k_last_name :> NAME_B)}

\* the first part of each upsert on the rows above
LeadRowsPrepared == [data_dict \in CsvMaps |-> LeadRow(data_dict)]
UserRowsPrepared == [data_dict \in CsvMaps |-> UserRow(data_dict)]

\* create_or_update_lead_from_csv_row(data_dict)
create_or_update_lead_from_csv_row(table, data_dict, today) ==
    LeadUpsert(table, LeadRowsPrepared[data_dict], today)

\* create_or_update_user_from_csv_row(data_dict)
create_or_update_user_from_csv_row(table, data_dict, today) ==
    UserUpsert(table, UserRowsPrepared[data_dict], today)

\* date.today(): the birthday of one date of birth above, the eve of the other
TODAY == <<2024, 6, 15>>
Todays == {TODAY}

\* the rows CSVValidateView caches for BulkUploadView: the required fields are
\* stripped and not empty, date_of_birth is a '%Y-%m-%d' text or None
CachedRows ==
    {[first_name |-> NAME_A, last_name |-> NAME_B, phone_number |-> PHONE_1,
      pan_number |-> PAN_ABCPM1234Z, date_of_birth |-> DOB_1990, city |-> CITY_X,
      pin_code |-> PIN_400001],
     [first_name |-> NAME_A, last_name |-> NAME_B, phone_number |-> PHONE_2,
      pan_number |-> PAN_XYZPC5678A, date_of_birth |-> <<>>, city |-> <<>>,
      pin_code |-> PIN_400001]}

MaxBatch == 2    \* rows of one bulk upload

\* request.POST of the two LeadUpdateView
UpdatePosts ==
    {[date_of_birth |-> DOB_1991], [date_of_birth |-> DOB_JUNK],
     [phone_number |-> PHONE_2]}

\* request.POST of LeadCreateView
CreatePosts ==
    {[phone_number |-> PHONE_1],
     [phone_number |-> PHONE_1_FORMATTED, first_name |-> NAME_A, last_name |-> NAME_B,
      pan |-> PAN_LOWER, pin_code |-> PIN_400001, city |-> CITY_X],
     [phone_number |-> PHONE_2, dob |-> DOB_1990],
     [phone_number |-> PHONE_2, dob |-> DOB_JUNK],
     [phone_number |-> PHONE_SHORT],
     [first_name |-> NAME_A]}

\* the record of the last operation: its name, its arguments, the day, the two
\* tables before it and what it returned
Operation(fn, args, today, out) ==
    [fn |-> fn, args |-> args, today |-> today, users |-> users, leads |-> leads,
     out |-> out]

UpsertUserCsv ==
    /\ \E data_dict \in CsvMaps, today \in Todays :
          \E r \in {create_or_update_user_from_csv_row(users, data_dict, today)} :
          /\ users' = r.table
          /\ inv' = Operation("create_or_update_user_from_csv_row", data_dict, today,
                              [raised |-> r.raised, created |-> r.created])
    /\ UNCHANGED <<pipelineVars, sideVars, leads, req>>

UpsertLeadCsv ==
    /\ \E data_dict \in CsvMaps, today \in Todays :
          \E r \in {create_or_update_lead_from_csv_row(users, data_dict, today)} :
          /\ users' = r.table
          /\ inv' = Operation("create_or_update_lead_from_csv_row", data_dict, today,
                              [raised |-> r.raised, created |-> r.created])
    /\ UNCHANGED <<pipelineVars, sideVars, leads, req>>

\* BulkUploadView.post of loans/views_admin.py: no cached session, or the cached rows
LoansBulkUploadPost ==
    /\ \E today \in Todays :
          \/ /\ inv' = Operation("loans.BulkUploadView.post", <<>>, today,
                                 [response |-> Json(400, "Session expired or invalid")])
             /\ UNCHANGED leads
          \/ \E cached \in SeqsUpTo(CachedRows, MaxBatch) \ {<<>>} :
                \E r \in {LoansBulkUpload(leads, cached)} :
                /\ leads' = r.table
                /\ inv' = Operation("loans.BulkUploadView.post", cached, today,
                                    [response |-> r.response])
    /\ UNCHANGED <<pipelineVars, sideVars, users, req>>

LoansLeadUpdatePost ==
    /\ \E lead_id \in 1..(Len(leads) + 1), POST \in UpdatePosts, today \in Todays :
          \E r \in {LoansLeadUpdate(leads, users, lead_id, POST, today)} :
          /\ leads' = r.leads
          /\ users' = r.users
          /\ inv' = Operation("loans.LeadUpdateView.post", <<lead_id, POST>>, today,
                              [response |-> r.response])
    /\ UNCHANGED <<pipelineVars, sideVars, req>>

CrmLeadCreatePost ==
    /\ \E POST \in CreatePosts, today \in Todays :
          \E r \in {CrmLeadCreate(users, POST, today)} :
          /\ users' = r.table
          /\ inv' = Operation("crm_admin.LeadCreateView.post", POST, today,
                              [response |-> r.response])
    /\ UNCHANGED <<pipelineVars, sideVars, leads, req>>

CrmLeadUpdatePost ==
    /\ \E lead_id \in 1..(Len(users) + 1), POST \in UpdatePosts, today \in Todays :
          \E r \in {CrmLeadUpdate(users, lead_id, POST, today)} :
          /\ users' = r.table
          /\ inv' = Operation("crm_admin.LeadUpdateView.post", <<lead_id, POST>>, today,
                              [response |-> r.response, raised |-> r.raised])
    /\ UNCHANGED <<pipelineVars, sideVars, leads, req>>

NextStore ==
    \/ UpsertUserCsv
    \/ UpsertLeadCsv
    \/ LoansBulkUploadPost
    \/ LoansLeadUpdatePost
    \/ CrmLeadCreatePost
    \/ CrmLeadUpdatePost

SpecStore == InitHarness /\ [][NextStore]_vars

(***************************************************************************)
(* loans/services/lead_csv_processor.py:                                   *)
(* bulk_create_or_update_leads_from_csv(csv_data), one row at each step    *)
(***************************************************************************)
MaxCsv == 2      \* rows of csv_data

\* the rows of csv_data: the rows above for a phone number that is missing,
\* blank, without digits or too short, and three well-formed ones
BulkCsvMaps ==
    {d \in CsvMaps :
        \/ k_phone_number \notin DOMAIN d
        \/ /\ k_phone_number \in DOMAIN d
           /\ \/ d[k_phone_number] \in {PHONE_SHORT, PHONE_NO_DIGITS, <<" ", " ">>, PHONE_2}
              \/ k_date_of_birth \in DOMAIN d}

\* faulty variant of the numbering of the rows: the first data row is row 1
RowNumberFromOne(i) == i

\* enumerate(csv_data, start=2): the number of the i-th row
RowNumber(i) == i + 1

\* the locals of bulk_create_or_update_leads_from_csv before its loop; wrote is the
\* history of the rows: whether the row changed the table
BulkStarted(csv_data, today) ==
    [pc |-> "bulk", csv_data |-> csv_data, today |-> today, i |-> 1,
     created |-> 0, updated |-> 0, failed |-> 0, errors |-> <<>>, wrote |-> <<>>]

\* the locals after one pass of the loop, r being what the upsert of the row did
BulkCounted(b, r, changed) ==
    [b EXCEPT !.i = @ + 1,
              !.created = IF r.raised = "none" /\ r.created THEN @ + 1 ELSE @,
              !.updated = IF r.raised = "none" /\ ~r.created THEN @ + 1 ELSE @,
              !.failed = IF r.raised # "none" THEN @ + 1 ELSE @,
              !.errors = IF r.raised # "none"
                         THEN Append(@, [row_num |-> RowNumber(b.i), reason |-> r.raised])
                         ELSE @,
              !.wrote = Append(@, changed)]

\* records stored before the upload
SeedUsers ==
    /\ req = NoRequest
    /\ UpsertUserCsv

StartBulkCsv ==
    /\ req = NoRequest
    /\ \E csv_data \in SeqsUpTo(BulkCsvMaps, MaxCsv), today \in Todays :
          req' = BulkStarted(csv_data, today)
    /\ inv' = Idle
    /\ UNCHANGED <<pipelineVars, storeVars>>

\* one pass of the loop: the upsert of the row in transaction.atomic(), every
\* exception caught
BulkCsvRow ==
    /\ req.pc = "bulk"
    /\ req.i <= Len(req.csv_data)
    /\ \E r \in {create_or_update_lead_from_csv_row(users, req.csv_data[req.i], req.today)} :
          /\ users' = r.table
          /\ req' = BulkCounted(req, r, r.table # users)
    /\ UNCHANGED <<pipelineVars, sideVars, leads, inv>>

BulkCsvReturn ==
    /\ req.pc = "bulk"
    /\ req.i > Len(req.csv_data)
    /\ req' = [req EXCEPT !.pc = "returned"]
    /\ UNCHANGED <<pipelineVars, storeVars, inv>>

NextBulkCsv == SeedUsers \/ StartBulkCsv \/ BulkCsvRow \/ BulkCsvReturn

SpecBulkCsv == InitHarness /\ [][NextBulkCsv]_vars

(***************************************************************************)
(* crm_admin/views.py: LenderCreateView.post                               *)
(***************************************************************************)
MaxLenderIds == 3     \* ids the table lenders_lender gives

k_name    == <<"n","a","m","e">>
k_Pincode == <<" ","P","i","n","c","o","d","e">>
PIN_110001_SPACED == <<" ","1","1","0","0","0","1"," ">>

\* request.FILES.get('pincode_csv'): no file, a file that is not UTF-8, or the rows
\* csv.reader makes of the lines of the file
NoFile == [present |-> FALSE, utf8 |-> TRUE, rows |-> <<>>]
NotUtf8 == [present |-> TRUE, utf8 |-> FALSE, rows |-> <<>>]
Utf8File(rs) == [present |-> TRUE, utf8 |-> TRUE, rows |-> rs]

PincodeFiles ==
    {NoFile, NotUtf8,
     Utf8File(<<>>),
     Utf8File(<< <<k_pincode>> >>),
     Utf8File(<< <<k_pincode>>, <<PIN_400001>> >>),
     Utf8File(<< <<k_name, k_Pincode>>, <<NAME_A, PIN_110001_SPACED>>, <<>>,
                 <<NAME_B, PIN_400001>>, <<NAME_B, PIN_4001>> >>),
     Utf8File(<< <<k_name>>, <<NAME_A>> >>),
     Utf8File(<< <<k_pincode>>, <<PIN_4001>>, <<<<>>>> >>),
     Utf8File(<< <<k_name, k_pincode>>, <<NAME_A, PIN_400001>>, <<NAME_B>> >>)}

LenderNames == {NoneV, NAME_A, NAME_B}
PincodeTypes == {<<>>, <<"w","h","i","t","e","l","i","s","t">>,
                 <<" ","b","l","a","c","k","l","i","s","t">>,
                 <<"g","r","e","y","l","i","s","t">>}

\* Lender.objects.create(name=name): name is NOT NULL and unique
LenderObjectsCreate(table, name) ==
    IF name = NoneV \/ \E i \in 1..Len(table.rows) : table.rows[i].name = name
    THEN Failed("IntegrityError", table, NoneV)
    ELSE LET lender == [id |-> table.last_id + 1, name |-> name,
                        pincodes_whitelisted |-> <<>>, pincodes_blacklisted |-> <<>>]
         IN  Wrote([rows |-> Append(table.rows, lender), last_id |-> lender.id], lender)

\* lender.delete()
LenderDelete(table, lender) ==
    [table EXCEPT !.rows = SelectSeq(@, LAMBDA r : r.id # lender.id)]

\* lender.save() of a stored lender
LenderSave(table, lender) ==
    [table EXCEPT !.rows = [i \in 1..Len(@) |-> IF @[i].id = lender.id THEN lender ELSE @[i]]]

\* the column of a row that the inner loop stops at: the first key, in the order of
\* the header, that is 'pincode' when lowered and stripped
PincodeKey(fieldnames) ==
    fieldnames[CHOOSE i \in 1..Len(fieldnames) :
                  /\ Strip(Lower(fieldnames[i])) = k_pincode
                  /\ \A j \in 1..i-1 : Strip(Lower(fieldnames[j])) # k_pincode]

\* the loop over csv_reader: the set pincodes, or AttributeError when the cell of the
\* pincode column is None (the row is shorter than the header)
RECURSIVE ExtractPincodes(_, _, _)
ExtractPincodes(fieldnames, ls, pincodes) ==
    IF ls = <<>> THEN [raised |-> "none", pincodes |-> pincodes]
    ELSE LET value == DictReaderRow(fieldnames, Head(ls))[PincodeKey(fieldnames)] IN
         IF value = NoneV THEN [raised |-> "AttributeError", pincodes |-> pincodes]
         ELSE LET pincode_value == Strip(value) IN
              ExtractPincodes(fieldnames, Tail(ls),
                  IF pincode_value # <<>> /\ IsDigit(pincode_value) /\ Len(pincode_value) = 6
                  THEN pincodes \cup {pincode_value} ELSE pincodes)

\* sorted(list(pincodes)): the texts have six digits each
RECURSIVE SortedPins(_)
SortedPins(pincodes) ==
    IF pincodes = {} THEN <<>>
    ELSE LET least == CHOOSE p \in pincodes : \A q \in pincodes : IntOf(p) <= IntOf(q)
         IN  <<least>> \o SortedPins(pincodes \ {least})

\* LenderCreateView.post(request)
LenderCreate(table, name, pincode_type_given, pincode_csv) ==
    LET created == LenderObjectsCreate(table, name)
        lender == created.instance
        pincode_type == Strip(pincode_type_given)
    IN  IF created.raised # "none" THEN Answered(Json(400, created.raised), table)
        ELSE IF pincode_type = <<>> \/ ~pincode_csv.present
        THEN Answered(Json(200, ""), created.table)
        ELSE IF pincode_type \notin {<<"w","h","i","t","e","l","i","s","t">>,
                                     <<"b","l","a","c","k","l","i","s","t">>}
        THEN Answered(Json(400, "Invalid pincode type"), LenderDelete(created.table, lender))
        \* decode('utf-8') and then decode('utf-8-sig') raise UnicodeDecodeError
        ELSE IF ~pincode_csv.utf8 THEN Answered(Json(400, "UnicodeDecodeError"), created.table)
        \* csv_reader.fieldnames of a file without a line is None
        ELSE IF pincode_csv.rows = <<>> THEN Answered(Json(400, "TypeError"), created.table)
        ELSE LET fieldnames == Head(pincode_csv.rows) IN
             IF ~\E i \in 1..Len(fieldnames) : Strip(Lower(fieldnames[i])) = k_pincode
             THEN Answered(Json(400, "CSV must have a column named pincode"),
                           LenderDelete(created.table, lender))
             ELSE LET read == ExtractPincodes(fieldnames, DataLines(Tail(pincode_csv.rows)), {}) IN
                  IF read.raised # "none" THEN Answered(Json(400, read.raised), created.table)
                  ELSE IF read.pincodes = {}
                  THEN Answered(Json(400, "No valid pincodes found in CSV"),
                                LenderDelete(created.table, lender))
                  ELSE LET pincodes_list == SortedPins(read.pincodes) IN
                       Answered(Json(200, ""),
                           LenderSave(created.table,
                               IF pincode_type = <<"w","h","i","t","e","l","i","s","t">>
                               THEN [lender EXCEPT !.pincodes_whitelisted = pincodes_list]
                               ELSE [lender EXCEPT !.pincodes_blacklisted = pincodes_list]))

LenderCreatePost ==
    /\ lender_table.last_id < MaxLenderIds
    /\ \E name \in LenderNames, pincode_type \in PincodeTypes, pincode_csv \in PincodeFiles :
          \E r \in {LenderCreate(lender_table, name, pincode_type, pincode_csv)} :
             /\ lender_table' = r.table
             /\ inv' = [fn |-> "crm.LenderCreateView.post", name |-> name,
                        pincode_type |-> pincode_type, pincode_csv |-> pincode_csv,
                        stored |-> lender_table.rows, response |-> r.response]
    /\ UNCHANGED <<pipelineVars, users, leads, usermeta, cache, req>>

NextLenders == LenderCreatePost

SpecLenders == InitHarness /\ [][NextLenders]_vars

(***************************************************************************)
(* crm_admin/views.py: CSVValidateView.post, BulkUploadView.post           *)
(***************************************************************************)
MaxSessions == 2     \* session ids CSVValidateView gives out

\* valid_rows of CSVValidateView.post: the phone numbers have 10 digits and differ,
\* the other cells are stripped
CrmValidRows ==
    {[phone_number |-> PHONE_1, first_name |-> NAME_C, last_name |-> <<>>,
      pan_number |-> <<>>, date_of_birth |-> DOB_1991, city |-> <<>>, pin_code |-> <<>>],
     [phone_number |-> PHONE_1, first_name |-> <<>>, last_name |-> <<>>,
      pan_number |-> PAN_XYZPC5678A, date_of_birth |-> DOB_JUNK, city |-> CITY_X,
      pin_code |-> PIN_4001],
     [phone_number |-> PHONE_2, first_name |-> NAME_A, last_name |-> NAME_B,
      pan_number |-> PAN_ABCPM1234Z, date_of_birth |-> DOB_1990, city |-> CITY_X,
      pin_code |-> PIN_400001]}

CrmValidLists ==
    {vs \in SeqsUpTo(CrmValidRows, MaxBatch) \ {<<>>} :
        \A i, j \in 1..Len(vs) : i # j => vs[i].phone_number # vs[j].phone_number}

\* the state of the sessions: how many ids uuid.uuid4() has given (each is new), and
\* the history of the ids whose upload answered success
Sessions == IF req = NoRequest THEN [pc |-> "sessions", issued |-> 0, used |-> {}] ELSE req

\* cache.set(f'bulk_upload_{session_id}', {'rows': valid_rows}, 3600)
CacheSet(entries, session_id, valid_rows) ==
    [k \in DOMAIN entries \cup {session_id} |->
        IF k = session_id THEN [rows |-> valid_rows] ELSE entries[k]]

\* cache.delete(f'bulk_upload_{session_id}'), and the expiry of an entry
CacheDelete(entries, session_id) ==
    [k \in DOMAIN entries \ {session_id} |-> entries[k]]

\* the PAN of a cached row: as it is when it has the format, else ''
CrmPanValue(row) ==
    LET pan == Upper(Strip(row.pan_number)) IN
    IF /\ Len(pan) = 10
       /\ \A i \in 1..5 : InAZ(pan[i])
       /\ \A i \in 6..9 : In09(pan[i])
       /\ InAZ(pan[10])
       /\ InList(pan[4], valid_fourth_chars)
    THEN pan ELSE <<>>

\* the pin code of a cached row: as it is when it has six digits, else ''
CrmPinValue(row) ==
    LET pin == Strip(row.pin_code) IN
    IF IsDigit(pin) /\ Len(pin) = 6 THEN pin ELSE <<>>

\* the date of birth of a cached row: None when it is empty or does not parse
CrmDateValue(row) ==
    IF Strip(row.date_of_birth) = <<>> THEN NoDate
    ELSE IF StrptimeYmdDash(row.date_of_birth) = StrptimeError THEN NoDate
    ELSE StrptimeYmdDash(row.date_of_birth)

\* one pass of the loop of BulkUploadView.post: the stored user gets the values of
\* the row that are not empty and is saved; for a phone number that is not stored
\* User.objects.create(..., status='pending') is called, and status is not a field
CrmBulkRow(table, row, today) ==
    LET found == GetByPhone(table, row.phone_number)
        values == [first_name |-> row.first_name, last_name |-> row.last_name,
                   pan_number |-> CrmPanValue(row), date_of_birth |-> CrmDateValue(row),
                   city |-> row.city, pin_code |-> CrmPinValue(row)]
        present == {f \in DOMAIN values :
                       IF f = "date_of_birth" THEN values[f] # NoDate
                       ELSE IF f \in {"pan_number", "pin_code"} THEN values[f] # <<>>
                       ELSE Strip(values[f]) # <<>>}
    IN  IF found # 0
        THEN UserSave(table, SetAttrs(table[found], FieldsOf(present, values)), today)
        ELSE UserObjectsCreate(table,
                 [phone_number |-> row.phone_number, status |-> <<"p","e","n","d","i","n","g">>]
                     @@ values, today)

\* the loop of BulkUploadView.post: it ends at the first row that raises, and the
\* rows before it stay written
RECURSIVE CrmBulkRows(_, _, _)
CrmBulkRows(table, rs, today) ==
    IF rs = <<>> THEN Wrote(table, NoneV)
    ELSE LET r == CrmBulkRow(table, Head(rs), today) IN
         IF r.raised # "none" THEN r ELSE CrmBulkRows(r.table, Tail(rs), today)

\* faulty variant of CrmBulkUpload: the session is not deleted
CrmBulkUploadKeepsSession(table, entries, session_id, today) ==
    IF session_id = 0
    THEN [response |-> Json(400, "No session ID provided"), table |-> table, cache |-> entries]
    ELSE IF session_id \notin DOMAIN entries
    THEN [response |-> Json(400, "Session expired or invalid"), table |-> table,
          cache |-> entries]
    ELSE LET done == CrmBulkRows(table, entries[session_id].rows, today) IN
         IF done.raised # "none"
         THEN [response |-> Json(400, done.raised), table |-> done.table, cache |-> entries]
         ELSE [response |-> Json(200, ""), table |-> done.table, cache |-> entries]

\* BulkUploadView.post(request): session_id 0 stands for a request without one; the
\* rows written before a row raises stay written, and the session stays cached
CrmBulkUpload(table, entries, session_id, today) ==
    IF session_id = 0
    THEN [response |-> Json(400, "No session ID provided"), table |-> table, cache |-> entries]
    ELSE IF session_id \notin DOMAIN entries
    THEN [response |-> Json(400, "Session expired or invalid"), table |-> table,
          cache |-> entries]
    ELSE LET done == CrmBulkRows(table, entries[session_id].rows, today) IN
         IF done.raised # "none"
         THEN [response |-> Json(400, done.raised), table |-> done.table, cache |-> entries]
         ELSE [response |-> Json(200, ""), table |-> done.table,
                   cache |-> CacheDelete(entries, session_id)]

\* records stored before the sessions
SeedUsersForSessions ==
    /\ req = NoRequest
    /\ cache = <<>>
    /\ UpsertUserCsv

\* CSVValidateView.post, from the valid rows on: a new session id, cache.set and the
\* answer
CrmCsvValidatePost ==
    /\ Sessions.issued < MaxSessions
    /\ \E valid_rows \in CrmValidLists :
          LET session_id == Sessions.issued + 1 IN
          /\ cache' = CacheSet(cache, session_id, valid_rows)
          /\ req' = [Sessions EXCEPT !.issued = session_id]
          /\ inv' = [fn |-> "crm.CSVValidateView.post", session_id |-> session_id,
                     response |-> Json(200, "")]
    /\ UNCHANGED <<pipelineVars, users, leads, usermeta, lender_table>>

CrmBulkUploadPost ==
    /\ \E session_id \in 0..MaxSessions, today \in Todays :
          \E r \in {CrmBulkUpload(users, cache, session_id, today)} :
             /\ users' = r.table
             /\ cache' = r.cache
             /\ req' = [Sessions EXCEPT !.used = IF r.response.status = 200
                                                 THEN @ \cup {session_id} ELSE @]
             /\ inv' = [fn |-> "crm.BulkUploadView.post", session_id |-> session_id,
                        issued |-> session_id \in 1..Sessions.issued,
                        cached |-> session_id \in DOMAIN cache,
                        used |-> session_id \in Sessions.used,
                        wrote |-> r.table # users, response |-> r.response]
    /\ UNCHANGED <<pipelineVars, leads, usermeta, lender_table>>

\* an entry of the cache reaches its timeout of 3600 seconds
CacheExpire ==
    /\ \E session_id \in DOMAIN cache : cache' = CacheDelete(cache, session_id)
    /\ UNCHANGED <<pipelineVars, users, leads, usermeta, lender_table, req, inv>>

NextSessions == SeedUsersForSessions \/ CrmCsvValidatePost \/ CrmBulkUploadPost \/ CacheExpire

SpecSessions == InitHarness /\ [][NextSessions]_vars

(***************************************************************************)
(* users/signals.py: create_user_meta, save_user_meta, on every save of a  *)
(* User; loans/models.py: the UserMeta part of create_user_from_lead       *)
(***************************************************************************)
LEAD_UPLOAD == <<"L","e","a","d"," ","U","p","l","o","a","d">>

\* the companions of a user in users_usermeta
MetaOf(metas, user_id) == {j \in 1..Len(metas) : metas[j].user_id = user_id}

\* UserMeta.objects.create(user=instance, ...): user is the primary key of UserMeta
UserMetaCreate(metas, instance, data_source) ==
    IF MetaOf(metas, instance.id) # {} THEN Failed("IntegrityError", metas, instance)
    ELSE Wrote(Append(metas, [user_id |-> instance.id, data_source |-> data_source]), instance)

\* create_user_meta(sender, instance, created)
create_user_meta(metas, instance, created) ==
    IF created THEN UserMetaCreate(metas, instance, <<>>) ELSE Wrote(metas, instance)

\* save_user_meta(sender, instance): a User has no attribute usermeta, the reverse
\* accessor of UserMeta.user is named meta, so hasattr(...) is False for every
\* instance
save_user_meta(metas, instance) ==
    LET has_usermeta == "usermeta" \in DOMAIN NewUser IN
    IF ~has_usermeta THEN UserMetaCreate(metas, instance, <<>>) ELSE Wrote(metas, instance)

\* post_save.send(sender=User, instance, created): the receivers in the order they
\* were connected; the exception of a receiver leaves send
post_save(metas, instance, created) ==
    LET first == create_user_meta(metas, instance, created) IN
    IF first.raised # "none" THEN first ELSE save_user_meta(first.table, instance)

\* what a save of a User leaves once post_save was sent: saved is what User.save did
\* before the signal; inside transaction.atomic() an exception undoes the rows
Signalled(saved, table, metas, atomic) ==
    IF saved.raised # "none"
    THEN [raised |-> saved.raised, saved |-> FALSE, users |-> table, metas |-> metas]
    ELSE LET created == \A i \in 1..Len(table) : table[i].id # saved.instance.id
             sent == post_save(metas, saved.instance, created)
         IN  IF sent.raised # "none" /\ atomic
             THEN [raised |-> sent.raised, saved |-> TRUE, users |-> table, metas |-> metas]
             ELSE [raised |-> sent.raised, saved |-> TRUE, users |-> saved.table,
                   metas |-> sent.table]

\* create_user_from_lead, lines 309-322: the companion of the updated user gets its
\* data source, or is created
LeadMeta(metas, user) ==
    IF MetaOf(metas, user.id) # {}
    THEN [j \in 1..Len(metas) |->
             IF metas[j].user_id = user.id /\ metas[j].data_source = <<>>
             THEN [metas[j] EXCEPT !.data_source = LEAD_UPLOAD] ELSE metas[j]]
    ELSE UserMetaCreate(metas, user, LEAD_UPLOAD).table

\* the rows of the CSV upsert that pass its first part
MetaCsvMaps == {d \in CsvMaps : UserRowsPrepared[d].raised = "none"}

\* the leads whose save sends post_save to create_user_from_lead
MetaLeads ==
    {[NewLead EXCEPT !.id = 1, !.phone_number = phone, !.first_name = NAME_C,
                     !.last_name = NAME_B, !.city = city] :
        phone \in {PHONE_1, PHONE_2}, city \in {<<>>, CITY_X}}

MetaCall(fn, r) ==
    [fn |-> fn, raised |-> r.raised, saved |-> r.saved, users |-> users]

\* User.objects.create_user(phone_number, **fields) outside a transaction
CreateUserSignalled ==
    /\ \E d \in MetaCsvMaps, today \in Todays :
          LET row == UserRowsPrepared[d] IN
          \E r \in {Signalled(create_user(users, row.phone_number, row.fields, today),
                              users, usermeta, FALSE)} :
             /\ users' = r.users
             /\ usermeta' = r.metas
             /\ inv' = MetaCall("create_user", r)
    /\ UNCHANGED <<pipelineVars, leads, lender_table, cache, req>>

\* create_or_update_user_from_csv_row, lines 179-198, inside transaction.atomic()
UpsertUserSignalled ==
    /\ \E d \in MetaCsvMaps, today \in Todays :
          LET row == UserRowsPrepared[d]
              i == GetByPhone(users, row.phone_number)
              saved == IF i # 0 THEN UserSave(users, SetAttrs(users[i], row.fields), today)
                       ELSE create_user(users, row.phone_number, row.fields, today)
          IN  \E r \in {Signalled(saved, users, usermeta, TRUE)} :
                 /\ users' = r.users
                 /\ usermeta' = r.metas
                 /\ inv' = MetaCall("create_or_update_user_from_csv_row", r)
    /\ UNCHANGED <<pipelineVars, leads, lender_table, cache, req>>

\* existing_user.save() of BulkUploadView.post of crm_admin, outside a transaction
SaveStoredUserSignalled ==
    /\ \E row \in CrmValidRows, today \in Todays :
          /\ GetByPhone(users, row.phone_number) # 0
          /\ \E r \in {Signalled(CrmBulkRow(users, row, today), users, usermeta, FALSE)} :
                /\ users' = r.users
                /\ usermeta' = r.metas
                /\ inv' = MetaCall("existing_user.save", r)
    /\ UNCHANGED <<pipelineVars, leads, lender_table, cache, req>>

\* create_user_from_lead on the save of a lead: QuerySet.update() sends no signal
LeadSavedSignalled ==
    /\ \E instance \in MetaLeads, today \in Todays :
          \E w \in {create_user_from_lead(users, instance, today)} :
             /\ users' = w.table
             /\ usermeta' = IF w.raised = "none" THEN LeadMeta(usermeta, w.instance)
                            ELSE usermeta
             /\ inv' = [fn |-> "create_user_from_lead", raised |-> w.raised,
                        saved |-> FALSE, users |-> users]
    /\ UNCHANGED <<pipelineVars, leads, lender_table, cache, req>>

NextMeta ==
    CreateUserSignalled \/ UpsertUserSignalled \/ SaveStoredUserSignalled \/ LeadSavedSignalled

SpecMeta == InitHarness /\ [][NextMeta]_vars

(***************************************************************************)
(* loans/services/lead_csv_processor.py: two runs of                       *)
(* bulk_create_or_update_leads_from_csv at the same time, each with one    *)
(* row; the lookup and the write of a row are two statements of one        *)
(* transaction.atomic() block                                              *)
(***************************************************************************)
Uploads == {1, 2}
Other(p) == 3 - p

\* the rows of the two uploads: they pass the first part of the upsert and give the
\* same phone number
RacePairs ==
    {pair \in CsvMaps \X CsvMaps :
        /\ LeadRowsPrepared[pair[1]].raised = "none"
        /\ LeadRowsPrepared[pair[2]].raised = "none"
        /\ LeadRowsPrepared[pair[1]].phone_number = LeadRowsPrepared[pair[2]].phone_number}

\* an upload before the lookup of its row
Begun(data_dict) ==
    [pc |-> "begun", row_data |-> data_dict, found |-> 0, lead |-> NoneV,
     stale |-> FALSE, raised |-> "none", wrote |-> NoneV]

\* records stored before the uploads
SeedUsersForUploads ==
    /\ req = NoRequest
    /\ UpsertUserCsv

StartUploads ==
    /\ req = NoRequest
    /\ \E pair \in RacePairs, today \in Todays :
          req' = [pc |-> "uploads", today |-> today, stored |-> users,
                  up |-> [p \in Uploads |-> Begun(pair[p])], order |-> <<>>]
    /\ inv' = Idle
    /\ UNCHANGED <<pipelineVars, storeVars>>

\* line 170: User.objects.get(phone_number=phone_number) reads the rows committed so
\* far
UploadGet(p) ==
    /\ req.pc = "uploads"
    /\ req.up[p].pc = "begun"
    /\ LET found == GetByPhone(users, LeadRowsPrepared[req.up[p].row_data].phone_number) IN
       req' = [req EXCEPT !.up[p].pc = "got", !.up[p].found = found,
                          !.up[p].lead = IF found # 0 THEN users[found] ELSE NoneV]
    /\ UNCHANGED <<pipelineVars, storeVars, inv>>

\* lines 171-180 and the end of the atomic block: the instance that was read gets the
\* fields of the row and is saved, or User.objects.create is called; the other
\* upload, if it has read and not yet written, now holds a row that is out of date
UploadWrite(p) ==
    /\ req.pc = "uploads"
    /\ req.up[p].pc = "got"
    /\ LET row == LeadRowsPrepared[req.up[p].row_data]
           w == IF req.up[p].found # 0
                THEN UserSave(users, SetAttrs(req.up[p].lead, row.fields), req.today)
                ELSE UserObjectsCreate(users,
                         [f \in DOMAIN row.fields \cup {"phone_number"} |->
                             IF f = "phone_number" THEN row.phone_number ELSE row.fields[f]],
                         req.today)
       IN  \E r \in {w} :
              /\ users' = r.table
              /\ req' = [req EXCEPT
                           !.up[p].pc = "done", !.up[p].raised = r.raised,
                           !.up[p].wrote = IF r.raised = "none" THEN r.instance ELSE NoneV,
                           !.up[Other(p)].stale =
                               @ \/ (r.raised = "none" /\ req.up[Other(p)].pc = "got"),
                           !.order = Append(@, p)]
    /\ UNCHANGED <<pipelineVars, leads, sideVars, inv>>

\* the write of an upload whose row is out of date, on a database that refuses it
\* (a locked SQLite file, a serialization failure): the exception is caught by the
\* loop and the row counts as failed
UploadRefused(p) ==
    /\ req.pc = "uploads"
    /\ req.up[p].pc = "got"
    /\ req.up[p].stale
    /\ req' = [req EXCEPT !.up[p].pc = "done", !.up[p].raised = "OperationalError",
                          !.order = Append(@, p)]
    /\ UNCHANGED <<pipelineVars, storeVars, inv>>

NextUploads ==
    \/ SeedUsersForUploads
    \/ StartUploads
    \/ \E p \in Uploads : UploadGet(p)
    \/ \E p \in Uploads : UploadWrite(p)
    \/ \E p \in Uploads : UploadRefused(p)

SpecUploads == InitHarness /\ [][NextUploads]_vars

(***************************************************************************)
(* The consent column of the two CSV upserts                               *)
(***************************************************************************)
k_consent_taken == <<"c","o","n","s","e","n","t","_","t","a","k","e","n">>
k_consent       == <<"c","o","n","s","e","n","t">>
k_Consent       == <<" ","C","o","n","s","e","n","t"," ">>

\* a value of lead_data['consent_taken'] or user_data['consent_taken']: <<TRUE>>,
\* <<FALSE>>, or <<>> when the key is not set
Unset == <<>>

\* create_or_update_lead_from_csv_row, lines 155-160
LeadConsent(data_dict) ==
    LET data    == NormalizedNonEmpty(data_dict)
        consent == Lower(Get2Strip(data, k_consent_taken, k_consent))
    IN  IF consent \in {<<"t","r","u","e">>, <<"1">>, <<"y","e","s">>, <<"y">>}
        THEN <<TRUE>>
        ELSE IF consent \in {<<"f","a","l","s","e">>, <<"0">>, <<"n","o">>, <<"n">>}
        THEN <<FALSE>>
        ELSE Unset

\* create_or_update_user_from_csv_row, lines 172-177
UserConsent(data_dict) ==
    LET data    == Normalized(data_dict)
        consent == Get2Strip(data, k_consent_taken, k_consent)
        consent_true_values == {<<"t","r","u","e">>, <<"y","e","s">>, <<"y">>, <<"1">>, <<"t">>}
    IN  IF consent # <<>> THEN <<Lower(consent) \in consent_true_values>>
        ELSE Unset

\* setattr(lead, 'consent_taken', value) when the key is set
ConsentAfter(stored, consent_taken) ==
    IF consent_taken = Unset THEN stored ELSE consent_taken[1]

\* the values of the consent column, under each spelling of its key, and a row
\* without the column
ConsentValues == {<<"t","r","u","e">>,
                  <<"T","R","U","E">>,
                  <<" ","Y","e","s"," ">>,
                  <<"1">>,
                  <<"y">>,
                  <<"Y">>,
                  <<"f","a","l","s","e">>,
                  <<"F","a","l","s","e">>,
                  <<"0">>,
                  <<"n","o">>,
                  <<" ","N"," ">>,
                  <<"t">>,
                  <<"m","a","y","b","e">>,
                  <<"o","n">>,
                  <<>>,
                  <<" ">>}
ConsentMaps ==
    {(k_phone_number :> PHONE_1)} \cup
    {(k_phone_number :> PHONE_1) @@ (k :> v) :
        k \in {k_consent_taken, k_consent, k_Consent}, v \in ConsentValues}

\* the update of a stored record by create_or_update_lead_from_csv_row, as far as
\* consent_taken goes
UpdateConsentLead ==
    /\ inv = Idle
    /\ \E data_dict \in ConsentMaps, stored \in BOOLEAN :
          inv' = [fn |-> "consent", of |-> "create_or_update_lead_from_csv_row",
                  data_dict |-> data_dict, stored |-> stored,
                  consent_taken |-> LeadConsent(data_dict),
                  after |-> ConsentAfter(stored, LeadConsent(data_dict))]
    /\ UNCHANGED <<pipelineVars, storeVars, req>>

\* the same by create_or_update_user_from_csv_row
UpdateConsentUser ==
    /\ inv = Idle
    /\ \E data_dict \in ConsentMaps, stored \in BOOLEAN :
          inv' = [fn |-> "consent", of |-> "create_or_update_user_from_csv_row",
                  data_dict |-> data_dict, stored |-> stored,
                  consent_taken |-> UserConsent(data_dict),
                  after |-> ConsentAfter(stored, UserConsent(data_dict))]
    /\ UNCHANGED <<pipelineVars, storeVars, req>>

NextConsent == UpdateConsentLead \/ UpdateConsentUser

SpecConsent == InitHarness /\ [][NextConsent]_vars

(***************************************************************************)
(* Properties of the dispatcher (SpecDispatch)                             *)
(***************************************************************************)
Dispatching == inv.fn = "process_lender"
ForCreditsea == Lower(inv.lender_name) = n_creditsea
Ret == inv.out.ret
Made == inv.out.calls

\* C1: process_lender for creditsea with check_dedupe and send_leads both set calls
\* the dedupe client first; a non-SUCCESS dedupe result is returned as it is and the
\* lead client is not called; DUPLICATE gives SUCCESS/DUPLICATE and the lead client
\* is not called; only after NOT_DUPLICATE is the lead client called, second, and
\* its result is the one returned.
C1_DedupeThenLead ==
    (Dispatching /\ ForCreditsea /\ inv.check_dedupe /\ inv.send_leads) =>
        /\ Len(Made) >= 1
        /\ Made[1].client = "dedupe"
        /\ \A i \in 2..Len(Made) : Made[i].client = "lead"
        /\ Len(Made) <= 2
        /\ LET d == Made[1].out.ret IN
           /\ d.status # "SUCCESS" => (Len(Made) = 1 /\ Ret = d)
           /\ (d.status = "SUCCESS" /\ d.result = "DUPLICATE") =>
                 (Len(Made) = 1 /\ Ret = [status |-> "SUCCESS", result |-> "DUPLICATE"])
           /\ (d.status = "SUCCESS" /\ d.result = "NOT_DUPLICATE") =>
                 (Len(Made) = 2 /\ Ret = Made[2].out.ret)
           /\ Len(Made) = 2 => (d.status = "SUCCESS" /\ d.result = "NOT_DUPLICATE")

C1_Witness ==
    /\ Dispatching /\ inv.lender_name = n_CreditSea
    /\ inv.check_dedupe /\ inv.send_leads
    /\ Len(Made) = 2
    /\ Made[1].resp.kind = "http" /\ Made[2].resp.kind = "http"
    /\ Ret.result = "LEAD_CREATED"

\* C5 as claimed: a lender name that does not match the registry gives
\* FAILED/UNSUPPORTED_LENDER and no client call, whatever the flags.
C5_UnsupportedWhateverFlags ==
    (Dispatching /\ ~ForCreditsea) => (Ret = UNSUPPORTED_LENDER /\ Made = <<>>)

\* C5 as amended: a lender name that does not match the registry (compared in lower
\* case) never leads to a client call; the result is FAILED/UNSUPPORTED_LENDER when
\* at least one flag is set and FAILED/NO_ACTION_SELECTED when both are clear.
C5_UnsupportedLender ==
    (Dispatching /\ ~ForCreditsea) =>
        /\ Made = <<>>
        /\ (inv.check_dedupe \/ inv.send_leads) =>
              Ret = [status |-> "FAILED", result |-> "UNSUPPORTED_LENDER"]
        /\ (~inv.check_dedupe /\ ~inv.send_leads) =>
              Ret = [status |-> "FAILED", result |-> "NO_ACTION_SELECTED"]

C5_Witness ==
    /\ Dispatching /\ inv.lender_name = n_creditsea \o <<" ">>
    /\ inv.check_dedupe /\ inv.send_leads
    /\ Ret.result = "UNSUPPORTED_LENDER"

\* C6: with check_dedupe and send_leads both clear process_lender returns
\* FAILED/NO_ACTION_SELECTED and calls neither client.
C6_NoActionSelected ==
    (Dispatching /\ ~inv.check_dedupe /\ ~inv.send_leads) =>
        (Ret = [status |-> "FAILED", result |-> "NO_ACTION_SELECTED"] /\ Made = <<>>)

C6_Witness ==
    /\ Dispatching /\ ~inv.check_dedupe /\ ~inv.send_leads
    /\ inv.lender_name = n_other
    /\ Ret.result = "NO_ACTION_SELECTED"

\* the phone number _process_creditsea hands to the dedupe client
PhoneOf(row_data) ==
    IF Truthy(Get(row_data, k_phoneNumber)) THEN Get(row_data, k_phoneNumber)
    ELSE IF Truthy(Get(row_data, k_phonenumber)) THEN Get(row_data, k_phonenumber)
    ELSE Get(row_data, k_mobile)

\* C7: for creditsea with exactly one flag set exactly one client is called and its
\* result is returned unchanged: the dedupe client alone when only check_dedupe is
\* set, the lead client alone when only send_leads is set.
C7_ExactlyOneClient ==
    (Dispatching /\ ForCreditsea) =>
        /\ (inv.check_dedupe /\ ~inv.send_leads) =>
              /\ Len(Made) = 1
              /\ Made[1].client = "dedupe"
              /\ Made[1].args = <<PhoneOf(inv.row_data), Get(inv.row_data, k_pan)>>
              /\ Ret = check_creditsea_dedupe(Made[1].args[1], Made[1].args[2],
                                              Made[1].resp).ret
        /\ (~inv.check_dedupe /\ inv.send_leads) =>
              /\ Len(Made) = 1
              /\ Made[1].client = "lead"
              /\ Made[1].args = <<inv.row_data>>
              /\ Ret = create_creditsea_lead(inv.row_data, Made[1].resp).ret

C7_Witness ==
    /\ Dispatching /\ ForCreditsea
    /\ ~inv.check_dedupe /\ inv.send_leads
    /\ Len(Made) = 1 /\ Made[1].client = "lead"
    /\ Ret.result = "API_REJECTED"

\* C8: whatever the service does, process_lender raises nothing and returns a
\* result with a status and a result code.
C8_NeverRaises ==
    Dispatching =>
        /\ inv.out.raised = "none"
        /\ \A i \in 1..Len(Made) : Made[i].out.raised = "none"
        /\ {"status", "result"} \subseteq DOMAIN Ret
        /\ Ret.status \in {"SUCCESS", "FAILED"}

C8_Witness ==
    /\ Dispatching /\ inv.check_dedupe /\ ~inv.send_leads
    /\ Len(Made) = 1
    /\ Made[1].resp.kind = "http" /\ Made[1].resp.code = 200
    /\ Made[1].resp.body.shape = "list"
    /\ inv.out.raised = "none"
    /\ Ret = [status |-> "FAILED", result |-> "API_ERROR"]

(***************************************************************************)
(* Properties of the two clients (SpecClients)                             *)
(***************************************************************************)
DedupeCalled == inv.fn = "check_creditsea_dedupe"
LeadCalled == inv.fn = "create_creditsea_lead"

\* the response is 2xx and its body is the JSON object {success: true, dedupe: d}
Answers2xx(resp, d) ==
    /\ resp.kind = "http"
    /\ 200 <= resp.code /\ resp.code <= 299
    /\ resp.body.shape = "object"
    /\ resp.body.success = "true"
    /\ resp.body.dedupe = d

\* C9: check_creditsea_dedupe returns SUCCESS/DUPLICATE exactly when the response is
\* 2xx with success=true and dedupe=true, SUCCESS/NOT_DUPLICATE exactly when it is
\* 2xx with success=true and dedupe=false, and FAILED/API_ERROR in every other case.
C9_DedupeOutcome ==
    DedupeCalled =>
        LET resp == inv.call.resp
            ret  == inv.call.out.ret
        IN  /\ inv.call.out.raised = "none"
            /\ ret = [status |-> "SUCCESS", result |-> "DUPLICATE"]
                  <=> Answers2xx(resp, "true")
            /\ ret = [status |-> "SUCCESS", result |-> "NOT_DUPLICATE"]
                  <=> Answers2xx(resp, "false")
            /\ (~Answers2xx(resp, "true") /\ ~Answers2xx(resp, "false"))
                  => ret = [status |-> "FAILED", result |-> "API_ERROR"]

\* a required field is missing from the row: no such key, None, or blank after trimming
Blank(row_data, field) ==
    \/ field \notin DOMAIN row_data
    \/ row_data[field] = NoneV
    \/ \A i \in 1..Len(row_data[field]) : row_data[field][i] \in Whitespace

\* C10: when one of the nine required fields is missing, None or blank after
\* trimming, create_creditsea_lead returns FAILED/VALIDATION_ERROR with the message
\* 'Missing field: <name>' for the first such field in the order first_name,
\* last_name, phoneNumber, pan, dob, gender, pinCode, income, employmentType, and
\* makes no network call.
C10_MissingField ==
    LeadCalled =>
        LET row_data == inv.call.args[1]
            order == <<k_first_name, k_last_name, k_phoneNumber, k_pan, k_dob,
                       k_gender, k_pinCode, k_income, k_employmentType>>
        IN  \A i \in 1..9 :
                (Blank(row_data, order[i]) /\ \A j \in 1..(i-1) : ~Blank(row_data, order[j]))
                => /\ inv.call.out.raised = "none"
                   /\ inv.call.out.ret =
                          [status |-> "FAILED", result |-> "VALIDATION_ERROR",
                           message |-> <<"Missing field: ">> \o order[i]]
                   /\ ~inv.call.out.net
                   /\ inv.call.resp = NoResp

C10_Witness ==
    /\ LeadCalled
    /\ k_pan \in DOMAIN inv.call.args[1]
    /\ inv.call.args[1][k_pan] = <<" ">>
    /\ k_income \notin DOMAIN inv.call.args[1]
    /\ inv.call.out.ret.message = <<"Missing field: ">> \o k_pan
    /\ ~inv.call.out.net

\* the response has a 2xx status
Is2xx(resp) == resp.kind = "http" /\ 200 <= resp.code /\ resp.code <= 299

\* the body of the response is a JSON object whose message is the success marker
HasMarker(resp) ==
    /\ resp.kind = "http"
    /\ resp.body.shape = "object"
    /\ resp.body.message = "Lead generated successfully"

\* C11: create_creditsea_lead returns SUCCESS/LEAD_CREATED only when the response
\* is 2xx and the message of its body is exactly 'Lead generated successfully'; a
\* 2xx response whose body carries another message, or none, gives
\* FAILED/API_REJECTED and never LEAD_CREATED.
C11_LeadCreated ==
    LeadCalled =>
        LET resp == inv.call.resp
            ret  == inv.call.out.ret
        IN  /\ inv.call.out.raised = "none"
            /\ ret.result = "LEAD_CREATED" =>
                  (ret.status = "SUCCESS" /\ Is2xx(resp) /\ HasMarker(resp))
            /\ (Is2xx(resp) /\ resp.body.shape = "object" /\ ~HasMarker(resp)) =>
                  (ret.status = "FAILED" /\ ret.result = "API_REJECTED")

\* the client call whose result the dispatcher hands back
LastMade == Made[Len(Made)]

\* the service was reached: the POST came back with a response
Reached(resp) == resp.kind = "http"

\* the response can be read by the client that got it: a JSON object, with
\* boolean success and dedupe members for the dedupe client
Interpretable(client, resp) ==
    /\ resp.kind = "http"
    /\ resp.body.shape = "object"
    /\ client = "dedupe" =>
          (resp.body.success \in {"true", "false"} /\ resp.body.dedupe \in {"true", "false"})

\* C12 (as stated): in every result the dispatcher returns, API_REJECTED appears
\* only when the external API was reached and answered with a rejection, and
\* API_ERROR appears only when the API was not reached or its response could not be
\* interpreted.
C12_Reachability ==
    (Dispatching /\ Ret.result \in {"API_REJECTED", "API_ERROR"}) =>
        /\ Len(Made) >= 1
        /\ Ret.result = "API_REJECTED" =>
              (Reached(LastMade.resp) /\ ~(Is2xx(LastMade.resp) /\ HasMarker(LastMade.resp)))
        /\ Ret.result = "API_ERROR" =>
              (~Reached(LastMade.resp) \/ ~Interpretable(LastMade.client, LastMade.resp))

\* C12 (amended): API_REJECTED comes only from the lead client, when the API was
\* reached and answered with a 4xx/5xx status or with a JSON object whose message
\* is not the success marker.  API_ERROR from the lead client appears only when the
\* API was not reached or the body of an answer without an error status is not a
\* JSON object.  API_ERROR from the dedupe client appears for every outcome of the
\* POST other than an answer without an error status whose body is a JSON object
\* with success true and dedupe true or false, so also for an answer that was
\* reached and is readable (a 4xx/5xx status, or success false).
C12_ReachabilityPerClient ==
    (Dispatching /\ Ret.result \in {"API_REJECTED", "API_ERROR"}) =>
        /\ Len(Made) >= 1
        /\ Ret = LastMade.out.ret
        /\ LET resp == LastMade.resp IN
           /\ Ret.result = "API_REJECTED" =>
                 /\ LastMade.client = "lead"
                 /\ Reached(resp)
                 /\ \/ RaisesForStatus(resp.code)
                    \/ resp.body.shape = "object" /\ ~HasMarker(resp)
           /\ (Ret.result = "API_ERROR" /\ LastMade.client = "lead") =>
                 \/ ~Reached(resp)
                 \/ ~RaisesForStatus(resp.code) /\ resp.body.shape # "object"
           /\ (Ret.result = "API_ERROR" /\ LastMade.client = "dedupe") =>
                 ~(/\ Reached(resp) /\ ~RaisesForStatus(resp.code)
                   /\ resp.body.shape = "object"
                   /\ resp.body.success = "true"
                   /\ resp.body.dedupe \in {"true", "false"})

C12_Witness ==
    /\ Dispatching /\ inv.check_dedupe /\ inv.send_leads
    /\ Len(Made) = 2
    /\ LastMade.resp.kind = "http" /\ LastMade.resp.code = 200
    /\ LastMade.resp.body.shape = "object"
    /\ LastMade.resp.body.message = "Invalid PAN"
    /\ Ret.result = "API_REJECTED"

(***************************************************************************)
(* Properties of process_csv (Spec)                                        *)
(***************************************************************************)
\* the header has a phone column (phoneNumber, phonenumber or mobile) or a pan column
HasRequiredColumn(hdr) ==
    \E i \in 1..Len(hdr) :
          Strip(hdr[i]) \in {k_phoneNumber, k_phonenumber, k_mobile, k_pan}

\* R: the data rows of the input; L: the requested lenders
R == Len(SelectSeq(lines, LAMBDA l : l # <<>>))
L == Len(lenders)

Ended == pc \in {"done", "raised"}

\* one result row for each (row, lender), row-major then lender-minor
RowMajor(rs) ==
    /\ Len(rs) = R * L
    /\ \A r \in 1..R : \A l \in 1..L :
          /\ rs[(r - 1) * L + l].row_number = r
          /\ rs[(r - 1) * L + l].lender = lenders[l]

\* C2: process_csv on an input with R data rows and L lenders produces exactly R*L
\* result rows, the one at position (r-1)*L + l for data row r and the l-th lender.
C2_RowMajorResults ==
    (Ended /\ HasRequiredColumn(header)) =>
        /\ RowMajor(results)
        /\ RowMajor(output.rows)

\* C2, second part: a result row is never changed after it was appended.
C2_AppendOnly ==
    [][\A i \in 1..Len(results) : Len(results') >= i /\ results'[i] = results[i]]_vars

\* C2 on the runs that are not aborted: what is written is row-major.
C2_WrittenRowMajor == pc = "done" => (RowMajor(results) /\ RowMajor(output.rows))

\* C3: a failed combination never halts the run: every row x lender combination is
\* dispatched and gets its result row whatever the rows hold; a run is aborted only
\* by a header without the required column, before any row is processed.
C3_OnlyHeaderAborts ==
    /\ pc = "raised" => (results = <<>> /\ calls = <<>>)
    /\ (Ended /\ HasRequiredColumn(header)) =>
          \A r \in 1..R : \A l \in 1..L :
              \E k \in 1..Len(results) :
                  results[k].row_number = r /\ results[k].lender = lenders[l]

\* C4: a header with neither a phone column nor a pan column makes process_csv fail
\* with ValueError before any row is dispatched: no client is called, no result row
\* is produced and the output CSV is not written.
C4_HeaderRejected ==
    (~HasRequiredColumn(header) /\ pc # "start") =>
        /\ pc = "raised"
        /\ exc = "ValueError"
        /\ rows = <<>>
        /\ calls = <<>>
        /\ results = <<>>
        /\ ~output.written

C4_Witness ==
    /\ pc = "raised" /\ exc = "ValueError"
    /\ Len(header) = 1 /\ header[1] = k_first_name
    /\ Len(lines) = 2 /\ Len(lines[1]) = 1
    /\ Len(lenders) = 2
    /\ check_dedupe /\ send_leads

(***************************************************************************)
(* Properties of the validators (SpecValidators)                           *)
(***************************************************************************)
PincodeAsked == inv.fn = "is_pincode_allowed"
PanChecked == inv.fn = "validate_pan_number"

ListedIn(list) == {list[i] : i \in 1..Len(list)}

\* C19: is_pincode_allowed(p): with a non-empty whitelist the answer is
\* (p in whitelist), whatever the blacklist holds; otherwise with a non-empty
\* blacklist the answer is (p not in blacklist); with both lists empty every
\* pincode is allowed.
C19_PincodeRule ==
    PincodeAsked =>
        LET white == ListedIn(inv.self.pincodes_whitelisted)
            black == ListedIn(inv.self.pincodes_blacklisted)
        IN  /\ white # {} => (inv.ret <=> inv.pincode \in white)
            /\ (white = {} /\ black # {}) => (inv.ret <=> inv.pincode \notin black)
            /\ (white = {} /\ black = {}) => inv.ret

C19_Witness ==
    /\ PincodeAsked
    /\ inv.self.pincodes_whitelisted = <<"400001">>
    /\ inv.self.pincodes_blacklisted = <<"400001", "110001">>
    /\ inv.pincode = "400001"
    /\ inv.ret

UpperSet == {"A","B","C","D","E","F","G","H","I","J","K","L","M",
             "N","O","P","Q","R","S","T","U","V","W","X","Y","Z"}
DigitSet == {"0","1","2","3","4","5","6","7","8","9"}

\* 5 uppercase letters, 4 digits and 1 uppercase letter, the 4th letter one of
\* P, C, H, F, A, T, B, G, J, L, the digit part not 0000
WellFormedPan(v) ==
    /\ Len(v) = 10
    /\ \A i \in {1, 2, 3, 4, 5, 10} : v[i] \in UpperSet
    /\ \A i \in {6, 7, 8, 9} : v[i] \in DigitSet
    /\ v[4] \in {"P", "C", "H", "F", "A", "T", "B", "G", "J", "L"}
    /\ <<v[6], v[7], v[8], v[9]>> # <<"0", "0", "0", "0">>

\* C20: validate_pan_number accepts a non-empty value exactly when it is 10
\* characters, 5 uppercase letters then 4 digits then 1 uppercase letter, with the
\* 4th letter among P, C, H, F, A, T, B, G, J, L and the digit part between 0001
\* and 9999; any other non-empty value raises ValidationError.  ABCPM1234Z is
\* accepted; ABCQM1234Z, ABCPM0000Z and ABC123456Z are rejected.
C20_PanAccepted ==
    (PanChecked /\ inv.value # NoneV /\ inv.value # <<>>) =>
        /\ inv.raised \in {"none", "ValidationError"}
        /\ inv.raised = "none" <=> WellFormedPan(inv.value)
        /\ inv.value = PAN_ABCPM1234Z => inv.raised = "none"
        /\ inv.value \in {PAN_ABCQM1234Z, PAN_ABCPM0000Z, PAN_ABC123456Z}
              => inv.raised = "ValidationError"

C20_Witness ==
    /\ PanChecked
    /\ inv.value = PAN_ABCPM0000Z
    /\ inv.raised = "ValidationError"

(***************************************************************************)
(* Properties of BulkDedupeAPIView.post (SpecView)                         *)
(***************************************************************************)
RequestEnded == req.pc \in {"responded", "raised"}

\* C17: once post has created the temporary input file, however the request ends
\* (results returned, ValueError of the structure check, any other exception while
\* staging or processing), the temporary input file is no longer on disk.
C17_InputRemoved == RequestEnded => req.input_path = "absent"

\* the same on the ways that end inside the try statement
InputRemovedInsideTry == req.pc = "responded" => req.input_path = "absent"

\* C18: both temporary files and both of their descriptors are released on every
\* exit path: after the request ends neither file is on disk and neither
\* descriptor is open.
C18_AllReleased ==
    RequestEnded =>
        /\ req.input_path = "absent" /\ req.output_path = "absent"
        /\ req.input_fd # "open" /\ req.output_fd # "open"

(***************************************************************************)
(* Properties of the store (SpecStore)                                     *)
(***************************************************************************)
UpsertFns == {"create_or_update_lead_from_csv_row", "create_or_update_user_from_csv_row"}
Upserting == inv.fn \in UpsertFns

\* the phone number of the row of the last upsert: the value under the key that
\* reads phone_number whatever its case and padding, its non-digit characters removed
GivenPhone ==
    LET keys == {k \in DOMAIN inv.args : Strip(Lower(k)) = k_phone_number} IN
    IF keys = {} THEN <<>>
    ELSE SelectSeq(inv.args[CHOOSE k \in keys : TRUE], LAMBDA c : c \in DigitSet)

\* the fields the row of the last upsert gives, as that upsert reads them
GivenFields ==
    LET row == IF inv.fn = "create_or_update_lead_from_csv_row"
               THEN LeadRowsPrepared[inv.args] ELSE UserRowsPrepared[inv.args]
    IN  [f \in DOMAIN row.fields \cap DataFields |-> row.fields[f]]

\* the row gives a name, a valid PAN and a valid pin code besides a 10-digit phone
CompleteRow ==
    /\ Len(GivenPhone) = 10
    /\ {"first_name", "last_name", "pan_number", "pin_code"} \subseteq DOMAIN GivenFields
    /\ WellFormedPan(GivenFields.pan_number)
    /\ Len(GivenFields.pin_code) = 6
    /\ \A i \in 1..6 : GivenFields.pin_code[i] \in DigitSet

RowsWith(table, phone_number) ==
    {i \in 1..Len(table) : table[i].phone_number = phone_number}

\* C13: an upsert of a row whose phone number is not stored returns created=True,
\* an upsert of a row whose phone number is stored returns created=False; either
\* way exactly one record has that phone number afterwards, its fields equal the
\* fields of the row, and every field the row does not give keeps the value it had.
C13_UpsertIdempotent ==
    (Upserting /\ CompleteRow) =>
        LET before == RowsWith(inv.users, GivenPhone)
            after  == RowsWith(users, GivenPhone)
        IN  /\ inv.out.raised = "none"
            /\ inv.out.created <=> before = {}
            /\ Cardinality(after) = 1
            /\ \A i \in after :
                  /\ \A f \in DOMAIN GivenFields : users[i][f] = GivenFields[f]
                  /\ \A f \in DataFields \ (DOMAIN GivenFields \cup {"phone_number"}) :
                        users[i][f] = IF before = {} THEN NewUser[f] ELSE inv.users[i][f]

\* the part of C13 about a phone number that is stored already
UpsertOfStoredPhone ==
    (Upserting /\ CompleteRow /\ RowsWith(inv.users, GivenPhone) # {}) =>
        /\ inv.out.raised = "none" /\ ~inv.out.created
        /\ Cardinality(RowsWith(users, GivenPhone)) = 1
        /\ \A i \in RowsWith(users, GivenPhone) :
              \A f \in DOMAIN GivenFields : users[i][f] = GivenFields[f]

UniquePhones(table) ==
    \A i, j \in 1..Len(table) : table[i].phone_number = table[j].phone_number => i = j

\* C14: after any sequence of CSV upserts, bulk uploads, direct creations and
\* direct updates, updates of the phone number included, no two records of a
\* table have the same phone_number.
C14_UniquePhone == UniquePhones(users) /\ UniquePhones(leads)

\* an update that gives a lead the phone number of another lead was refused
C14_Witness ==
    /\ inv.fn = "loans.LeadUpdateView.post"
    /\ Len(inv.leads) = 2
    /\ "phone_number" \in DOMAIN inv.args[2]
    /\ inv.args[1] \in 1..2
    /\ inv.leads[inv.args[1]].phone_number # inv.args[2].phone_number
    /\ inv.leads[3 - inv.args[1]].phone_number = inv.args[2].phone_number
    /\ inv.out.response.status = 400

\* C15: an upsert of a row whose phone number is missing or does not have exactly
\* 10 digits once its non-digit characters are removed raises a validation error
\* (ValidationError, or the ValueError of create_user) and writes nothing: both
\* tables are as they were before.
C15_BadPhoneRejected ==
    (Upserting /\ Len(GivenPhone) # 10) =>
        /\ inv.out.raised \in {"ValidationError", "ValueError"}
        /\ users = inv.users
        /\ leads = inv.leads

\* a phone number of 12 digits was refused while the table had records
C15_Witness ==
    /\ Upserting
    /\ Len(GivenPhone) = 12
    /\ inv.out.raised = "ValidationError"
    /\ Len(users) = 2

\* the age of a date of birth on a day
AgeOn(dob, today) ==
    IF dob = NoDate THEN NoAge
    ELSE IF today[2] < dob[2] \/ (today[2] = dob[2] /\ today[3] < dob[3])
    THEN <<today[1] - dob[1] - 1>>
    ELSE <<today[1] - dob[1]>>

\* the rows of a table that the last operation created or changed
Touched(before, after) ==
    {i \in 1..Len(after) : i > Len(before) \/ after[i] # before[i]}

SavingFns == UpsertFns \cup {"crm_admin.LeadCreateView.post", "crm_admin.LeadUpdateView.post",
                             "loans.LeadUpdateView.post"}

\* C16: after a CSV upsert, a direct creation or a direct update, every record it
\* created or changed has the age of its date_of_birth on that day (the year
\* difference, one less before the birthday), and no age when it has no
\* date_of_birth.
C16_AgeDerived ==
    inv.fn \in SavingFns =>
        /\ \A i \in Touched(inv.users, users) :
              users[i].age = AgeOn(users[i].date_of_birth, inv.today)
        /\ \A i \in Touched(inv.leads, leads) :
              leads[i].age = AgeOn(leads[i].date_of_birth, inv.today)

\* the same for the records of the users table alone
UserAgeDerived ==
    inv.fn \in SavingFns =>
        \A i \in Touched(inv.users, users) :
            users[i].age = AgeOn(users[i].date_of_birth, inv.today)

(***************************************************************************)
(* Properties of process_csv about the external calls (Spec, SpecLive)     *)
(***************************************************************************)
\* two entries of the history of calls that belong to one (row, lender) combination
SameCombination(i, j) ==
    /\ calls[i].row_number = calls[j].row_number
    /\ calls[i].lender_no = calls[j].lender_no

\* C23: within one run no external call is retried: for each (row, lender)
\* combination each client is called at most once, and after a call for a
\* combination has failed no further call is made for that combination.
C23_NoRetry ==
    \A i, j \in 1..Len(calls) :
        (i < j /\ SameCombination(i, j)) =>
            /\ calls[i].client # calls[j].client
            /\ ~calls[i].failed

\* a dedupe call timed out with both flags set, and the run went on to its end
C23_Witness ==
    /\ pc = "done"
    /\ check_dedupe /\ send_leads
    /\ Len(calls) = 3
    /\ calls[1].client = "dedupe" /\ calls[1].net /\ calls[1].failed
    /\ calls[2].client = "dedupe" /\ ~calls[2].failed
    /\ calls[3].client = "lead" /\ SameCombination(2, 3)

\* the result row of the combination a call belongs to
ResultOfCall(i) == (calls[i].row_number - 1) * Len(lenders) + calls[i].lender_no

\* a call that timed out gives its combination the result FAILED/API_ERROR
TimeoutIsApiError ==
    \A i \in 1..Len(calls) :
        calls[i].kind = "timeout" =>
            /\ ResultOfCall(i) <= Len(results)
            /\ results[ResultOfCall(i)].status = "FAILED"
            /\ results[ResultOfCall(i)].result = "API_ERROR"

Completed == pc = "done" /\ output.written /\ output.rows = results

\* C24: when every external call answers or times out, a run on a CSV whose header
\* has a required column always terminates with the output written; a call that
\* times out gives its (row, lender) combination the result FAILED/API_ERROR and
\* the run goes on to completion.
C24_Terminates ==
    /\ []TimeoutIsApiError
    /\ HasRequiredColumn(header) ~> Completed

\* no line of the file has more cells than the header
NoSurplusCells == \A i \in 1..Len(lines) : Len(lines[i]) <= Len(header)

\* C24 for the files without a line longer than the header
TerminatesWithoutSurplus ==
    (HasRequiredColumn(header) /\ NoSurplusCells) ~> Completed

(***************************************************************************)
(* The shape of the dispatcher's results (SpecDispatch)                    *)
(***************************************************************************)
ResultCodes == {"LEAD_CREATED", "DUPLICATE", "NOT_DUPLICATE", "VALIDATION_ERROR",
                "API_REJECTED", "API_ERROR", "UNSUPPORTED_LENDER", "NO_ACTION_SELECTED"}
SuccessCodes == {"LEAD_CREATED", "DUPLICATE", "NOT_DUPLICATE"}

\* C28: every result process_lender returns has status SUCCESS or FAILED and one
\* of the eight documented result codes, the status is SUCCESS exactly when the
\* result is LEAD_CREATED, DUPLICATE or NOT_DUPLICATE, and lead_id and utm_link are
\* carried only by LEAD_CREATED results.
C28_ResultShape ==
    Dispatching =>
        /\ inv.out.raised = "none"
        /\ {"status", "result"} \subseteq DOMAIN Ret
        /\ Ret.status \in {"SUCCESS", "FAILED"}
        /\ Ret.result \in ResultCodes
        /\ Ret.status = "SUCCESS" <=> Ret.result \in SuccessCodes
        /\ (DOMAIN Ret \cap {"lead_id", "utm_link"} # {}) => Ret.result = "LEAD_CREATED"

\* a duplicate found with both flags set, reported as a success without a lead_id
C28_Witness ==
    /\ Dispatching
    /\ inv.check_dedupe /\ inv.send_leads
    /\ Ret.status = "SUCCESS" /\ Ret.result = "DUPLICATE"
    /\ "lead_id" \notin DOMAIN Ret
    /\ Len(Made) = 1

\* the keys under which a row gives a field
Aliases(f) ==
    IF f = "first_name" THEN {k_first_name}
    ELSE IF f = "last_name" THEN {k_last_name}
    ELSE IF f = "pan_number" THEN {k_pan_number, k_pan}
    ELSE IF f = "pin_code" THEN {k_pin_code, k_pincode}
    ELSE IF f = "date_of_birth" THEN {k_date_of_birth, k_dob}
    ELSE {k_city}

\* the row of the last upsert gives no value for a field: no key, or only empty
\* or whitespace-only values
IncomingBlank(f) ==
    \A k \in DOMAIN inv.args :
        Strip(Lower(k)) \in Aliases(f) => Strip(inv.args[k]) = <<>>

OptionalFields == {"first_name", "last_name", "pan_number", "pin_code", "city",
                   "date_of_birth"}

UpdatedExisting == Upserting /\ inv.out.raised = "none" /\ ~inv.out.created

\* C26: in a CSV upsert that updates an existing record, every optional field whose
\* incoming value is missing, empty or whitespace-only leaves the stored value of
\* that field unchanged.
C26_BlankKeepsStored ==
    UpdatedExisting =>
        \A i \in RowsWith(users, GivenPhone) :
            \A f \in OptionalFields :
                IncomingBlank(f) => users[i][f] = inv.users[i][f]

\* the same for every field but the city
BlankKeepsStoredButCity ==
    UpdatedExisting =>
        \A i \in RowsWith(users, GivenPhone) :
            \A f \in OptionalFields \ {"city"} :
                IncomingBlank(f) => users[i][f] = inv.users[i][f]

(***************************************************************************)
(* Properties of the consent column (SpecConsent)                          *)
(***************************************************************************)
Consenting == inv.fn = "consent"

\* the value of the consent column of the row, trimmed and in lower case
ConsentWord ==
    LET keys == {k \in DOMAIN inv.data_dict :
                    Strip(Lower(k)) \in {k_consent_taken, k_consent}}
    IN  IF keys = {} THEN <<>>
        ELSE Lower(Strip(inv.data_dict[CHOOSE k \in keys : TRUE]))

TrueWords  == {<<"t","r","u","e">>, <<"1">>, <<"y","e","s">>, <<"y">>}
FalseWords == {<<"f","a","l","s","e">>, <<"0">>, <<"n","o">>, <<"n">>}

\* C27: the row normalizer maps a consent value (case-insensitive, trimmed) in
\* {true, 1, yes, y} to True and one in {false, 0, no, n} to False; any other value
\* leaves consent_taken unset, so on update the stored consent is not changed.
C27_ConsentMapping ==
    Consenting =>
        /\ ConsentWord \in TrueWords => (inv.consent_taken = <<TRUE>> /\ inv.after)
        /\ ConsentWord \in FalseWords => (inv.consent_taken = <<FALSE>> /\ ~inv.after)
        /\ ConsentWord \notin TrueWords \cup FalseWords =>
              (inv.consent_taken = Unset /\ inv.after = inv.stored)

\* C27 for create_or_update_lead_from_csv_row alone
LeadConsentMapping ==
    (Consenting /\ inv.of = "create_or_update_lead_from_csv_row") => C27_ConsentMapping

(***************************************************************************)
(* Properties of bulk_create_or_update_leads_from_csv (SpecBulkCsv)        *)
(***************************************************************************)
InBulk == req.pc \in {"bulk", "returned"}

\* the phone number of a row, its non-digit characters removed; <<>> without one
PhoneDigits(d) ==
    LET keys == {k \in DOMAIN d : Strip(Lower(k)) = k_phone_number} IN
    IF keys = {} THEN <<>>
    ELSE SelectSeq(d[CHOOSE k \in keys : TRUE], LAMBDA c : c \in DigitSet)

ErrorsOfRow(n) == {e \in 1..Len(req.errors) : req.errors[e].row_num = n}

\* C22: a row whose phone_number is missing or malformed is skipped without any
\* write and gets one error entry with its row number (the first data row is row
\* 2) and the reason; every later row is still processed; at the end created +
\* updated + failed is the number of rows and there are as many error entries as
\* failed rows.
C22_BadRowsSkipped ==
    InBulk =>
        /\ \A k \in 1..Len(req.wrote) :
              Len(PhoneDigits(req.csv_data[k])) # 10 =>
                  /\ ~req.wrote[k]
                  /\ Cardinality(ErrorsOfRow(k + 1)) = 1
                  /\ \A e \in ErrorsOfRow(k + 1) :
                        req.errors[e].reason = "ValidationError"
        /\ req.pc = "returned" =>
              /\ Len(req.wrote) = Len(req.csv_data)
              /\ req.created + req.updated + req.failed = Len(req.csv_data)
              /\ Len(req.errors) = req.failed

\* a row with a short phone number failed as row 2 and the row after it updated
\* the stored record
C22_Witness ==
    /\ req.pc = "returned"
    /\ Len(req.csv_data) = 2
    /\ Len(PhoneDigits(req.csv_data[1])) = 5
    /\ req.failed = 1 /\ req.updated = 1
    /\ req.errors = <<[row_num |-> 2, reason |-> "ValidationError"]>>
    /\ req.wrote = <<FALSE, TRUE>>

(***************************************************************************)
(* Properties of LenderCreateView.post (SpecLenders)                       *)
(***************************************************************************)
LenderCreateAnswered == inv.fn = "crm.LenderCreateView.post"

\* C30: whenever LenderCreateView.post answers success=false (invalid pincode type,
\* pincode CSV without a pincode column, no valid 6-digit pincode, or any exception
\* while reading the pincode CSV), the Lender created at the start of the request
\* has been removed: the stored lenders are those stored before the request.
C30_FailedCreateRollsBack ==
    LenderCreateAnswered /\ inv.response.status # 200 => lender_table.rows = inv.stored

\* the three answers that call lender.delete() and the failure of the INSERT leave
\* the stored lenders as they were
FailedCreateRollsBackUnlessRaised ==
    /\ LenderCreateAnswered
    /\ inv.response.status # 200
    /\ inv.response.error \notin {"UnicodeDecodeError", "TypeError", "AttributeError"}
    => lender_table.rows = inv.stored

(***************************************************************************)
(* Properties of the two-step bulk upload of crm_admin (SpecSessions)      *)
(***************************************************************************)
CrmUploadAnswered == inv.fn = "crm.BulkUploadView.post"

\* C29: BulkUploadView writes records only for a session id that an earlier
\* CSVValidateView call stored and that is still cached; after a BulkUploadView
\* call that answers success the session entry is deleted, so a later call with
\* the same session id is rejected as expired or invalid and writes nothing.
C29_SessionUsedOnce ==
    /\ \A session_id \in Sessions.used : session_id \notin DOMAIN cache
    /\ CrmUploadAnswered =>
          /\ inv.wrote => inv.issued /\ inv.cached
          /\ inv.response.status = 200 => inv.cached /\ inv.session_id \in Sessions.used
          /\ inv.used =>
                /\ inv.response = Json(400, "Session expired or invalid")
                /\ ~inv.wrote

\* a session that answered success is asked for again and is rejected
C29_Witness ==
    /\ CrmUploadAnswered
    /\ inv.used
    /\ inv.response.status = 400
    /\ users # <<>>

(***************************************************************************)
(* Properties of the post_save receivers of User (SpecMeta)                *)
(***************************************************************************)
\* every stored User has exactly one companion
ExactlyOneCompanion ==
    \A i \in 1..Len(users) : Cardinality(MetaOf(usermeta, users[i].id)) = 1

\* C21: after any sequence of creations and updates, each save of a User running
\* both post_save receivers, every stored User has exactly one companion UserMeta,
\* never none and never a second one, and creating the companion does not make the
\* save of the record fail.
C21_OneCompanion ==
    /\ ExactlyOneCompanion
    /\ inv.fn # "idle" /\ inv.saved => inv.raised = "none"

(***************************************************************************)
(* Properties of two concurrent bulk uploads (SpecUploads)                 *)
(***************************************************************************)
UploadsDone == req.pc = "uploads" /\ \A p \in Uploads : req.up[p].pc = "done"

RacePhone == LeadRowsPrepared[req.up[1].row_data].phone_number

\* the table after the two upserts ran one after the other, in the order in which
\* their transactions ended
OneAfterTheOther ==
    LET first == req.up[req.order[1]].row_data
        second == req.up[req.order[2]].row_data
    IN  create_or_update_lead_from_csv_row(
            create_or_update_lead_from_csv_row(req.stored, first, req.today).table,
            second, req.today).table

\* the upload that committed a write last, 0 when none did
LastWriter ==
    IF req.up[req.order[2]].raised = "none" THEN req.order[2]
    ELSE IF req.up[req.order[1]].raised = "none" THEN req.order[1]
    ELSE 0

\* C25: when two bulk uploads run concurrently and each has a row for the same
\* phone_number, each row's lookup-then-insert-or-update runs as one atomic step
\* with respect to the other: in every interleaving exactly one record for that
\* phone exists afterwards, it carries the fields written by the upsert that
\* committed last, and the table is what the two upserts leave when one runs after
\* the other.
C25_AtomicUpserts ==
    UploadsDone =>
        /\ Cardinality(RowsWith(users, RacePhone)) = 1
        /\ LastWriter # 0
        /\ \A i \in RowsWith(users, RacePhone) : users[i] = req.up[LastWriter].wrote
        /\ users = OneAfterTheOther

\* never a second record for the phone number, and when an upload committed a write
\* the record is the one the last such upload wrote
LastWriterWins ==
    UploadsDone =>
        /\ Cardinality(RowsWith(users, RacePhone)) <= 1
        /\ LastWriter # 0 =>
              \A i \in RowsWith(users, RacePhone) : users[i] = req.up[LastWriter].wrote

\* for a phone number that is stored, two uploads whose lookups and writes do not
\* overlap leave what the claim states
StoredAndNotOverlapping ==
    /\ UploadsDone
    /\ RowsWith(req.stored, RacePhone) # {}
    /\ \A p \in Uploads : ~req.up[p].stale
    /\ \A p \in Uploads : req.up[p].raised = "none"
    => /\ Cardinality(RowsWith(users, RacePhone)) = 1
       /\ users = OneAfterTheOther

=============================================================================
